---- MODULE Spec2Model ----
(***************************************************************************)
(* The orchestration core of the Kibo desktop companion: the useKibo hook  *)
(* (src/hooks/useKibo.ts).  The session state kiboState, the notification  *)
(* slot, the four timers, the asynchronous workflows in flight (each with  *)
(* the values its closure captured when it was invoked) and the speak      *)
(* calls in flight are the state; every handler, every resumption after an *)
(* await and every timer callback is one action.                            *)
(*                                                                         *)
(* React specifics that the model keeps:                                   *)
(*  - setKiboState(prev => ...) reads the latest state; a plain read of    *)
(*    kiboState inside a handler reads the render the handler was created  *)
(*    in, so a workflow keeps a snapshot of what it reads after an await.  *)
(*  - useEffect bodies re-run when their dependencies change; they are     *)
(*    applied in the same step as the update that changed them (Commit).   *)
(*  - the continuation of "await handleCharacterChange(...)" runs in a     *)
(*    microtask: nothing else runs between the callee's end and it.        *)
(***************************************************************************)
EXTENDS Integers, Sequences, FiniteSets, TLC

(* ------------------------------ bounds -------------------------------- *)

\* user operations (handler invocations) in one behaviour
MaxOps == 2
\* workflows in flight at once
MaxFlows == 2
\* speak calls in flight at once
MaxSpeaks == 3
\* the clock stops after this many poll periods
MaxPeriods == 7
\* the same, where only the reminder poll is timed
MaxPollPeriods == 3
\* The clock's last value in the runs of proactive mode, in poll periods of
\* the reminder checker: one proactive period and one more tick.
MaxProactivePeriods == 10
\* keys of storage changed from outside the session before a load
MaxEdits == 1
MaxIdlePeriods == 20

(* ------------------------- program constants -------------------------- *)

ReminderPollMs == 10000
IdleMs == 180000
ProactivePollMs == 90000
MsPerSecond == 1000
MsPerMinute == 60000

Moods == {"NEUTRAL", "HAPPY", "SAD", "BUSY", "ANGRY", "PLAYFUL"}
Statuses == {"idle", "listening", "thinking", "speaking"}
Voices == {"Puck", "Charon", "Kore", "Fenrir", "Zephyr"}
AvatarStyles == {"ABSTRACT", "ANIME_GIRL", "MUZAN", "GOJO", "GENERATED"}

avatarVoiceMap ==
  [s \in AvatarStyles |->
     CASE s = "ABSTRACT" -> "Puck"
       [] s = "ANIME_GIRL" -> "Kore"
       [] s = "MUZAN" -> "Fenrir"
       [] s = "GOJO" -> "Zephyr"
       [] OTHER -> "Puck"]

(* --------------------------- null and values -------------------------- *)

\* null, and a non-null value x, of a field typed "T | null"
Nil == <<>>
Some(x) == <<x>>
Val(o) == o[1]

Min(S) == CHOOSE x \in S : \A y \in S : x <= y
Remove(seq, i) == SubSeq(seq, 1, i - 1) \o SubSeq(seq, i + 1, Len(seq))

VARIABLES
  kiboState,      \* the KiboState aggregate (useState, line 65)
  notification,   \* the notification slot (useState, line 104)
  chatInput,      \* the text of the input field (useState, line 103)
  now,            \* Date.now()
  focusTimer,     \* the pending focus countdowns, in the order they were
                  \* armed; focusTimerRef holds the one armed last
  idleTimer,      \* the timeout behind idleTimerRef: Nil or Some of its due
                  \* time and the render its callback closes over
  reminderPoll,   \* the reminder checker's interval: Nil or Some(next tick)
  proactivePoll,  \* the proactive interval: Nil or Some(next tick)
  reactionTimers, \* pending triggerReaction timeouts
  flows,          \* workflows in flight, by slot
  speaks,         \* speak calls in flight, in call order
  nextId,         \* the next uuidv4()
  storage,        \* localStorage: for each key Nil or Some(text)
  mounted,        \* the hook is mounted: its state initializer returned
  hist,           \* history variable: one entry per handler invocation
  log             \* history variable: what the last step emitted, the
                  \* directives it applied, what the capability it awaited
                  \* returned, and whether it was a poll tick

vars == <<kiboState, notification, chatInput, now, focusTimer, idleTimer, reminderPoll,
          proactivePoll, reactionTimers, flows, speaks, nextId, storage,
          mounted, hist, log>>

(* ---------------------- the state a handler touches -------------------- *)

\* What a handler reads from the render it was created in: speak and
\* triggerReaction close over isKiboActive and voice, handleCharacterChange
\* over userPreferredLanguage, handlePrioritizeTasks over reminders, the
\* idle timer's callback over status and isListening.
Snap(ks) ==
  [active |-> ks.isKiboActive, voice |-> ks.voice,
   userLang |-> ks.userPreferredLanguage, status |-> ks.status,
   listening |-> ks.isListening]

\* The state one synchronous run of handler code reads and writes.
World ==
  [ks |-> kiboState, notification |-> notification, chatInput |-> chatInput,
   speaks |-> speaks, focusTimer |-> focusTimer, idleTimer |-> idleTimer,
   reactionTimers |-> reactionTimers, nextId |-> nextId, hist |-> hist,
   flows |-> flows, notifs |-> <<>>, said |-> <<>>, applied |-> <<>>,
   returned |-> Nil, remTouched |-> FALSE]

\* setNotification({message, type}); owner is the dispatch (an index of
\* hist) the call is made for, 0 when it is made for no dispatch.
setNotification(w, type, message, owner) ==
  [w EXCEPT
     !.notification = Some([type |-> type, message |-> message]),
     !.notifs = Append(@, [type |-> type, message |-> message]),
     !.hist = IF type = "error" /\ owner \in DOMAIN w.hist
              THEN [@ EXCEPT ![owner].errs = @ + 1] ELSE @]

\* speak(text, mood), up to its first await (lines 128-136).
speak(w, text, mood, snap, owner) ==
  IF ~snap.active
  THEN [w EXCEPT !.said = Append(@, [text |-> text, mood |-> mood, on |-> FALSE])]
  ELSE [w EXCEPT
          !.ks = [@ EXCEPT !.status = "speaking", !.mood = mood],
          !.speaks = Append(@, [owner |-> owner, voice |-> snap.voice, mood |-> mood]),
          !.said = Append(@, [text |-> text, mood |-> mood, on |-> TRUE])]

\* The parts of a new message (lines 148-150).
Parts(text, imageUrl) ==
  (IF text # "" THEN <<[type |-> "text", text |-> text]>> ELSE <<>>)
  \o (IF imageUrl # Nil THEN <<[type |-> "image", url |-> Val(imageUrl)]>> ELSE <<>>)

\* An addMessage that puts the new message first.
addMessageFirst(w, role, text, imageUrl, sources) ==
  [w EXCEPT !.ks = [@ EXCEPT !.messages =
     <<[role |-> role, parts |-> Parts(text, imageUrl), sources |-> sources]>> \o @]]

\* addMessage(role, text, imageUrl, sources) (lines 147-155); the uuid of a
\* message is not kept.
addMessage(w, role, text, imageUrl, sources) ==
  [w EXCEPT !.ks = [@ EXCEPT !.messages =
     Append(@, [role |-> role, parts |-> Parts(text, imageUrl), sources |-> sources])]]

\* A new Reminder (line 158).
NewReminder(id, task, time) ==
  [id |-> id, task |-> task, time |-> time, completed |-> FALSE, completedAt |-> Nil]

\* addReminder(task, time) (lines 157-162).
addReminder(w, task, time, snap, owner) ==
  LET w1 == [w EXCEPT
               !.ks = [@ EXCEPT !.reminders = Append(@, NewReminder(w.nextId, task, time))],
               !.nextId = @ + 1,
               !.remTouched = TRUE]
      w2 == setNotification(w1, "info", "reminder set", owner)
  IN speak(w2, "reminder set", "HAPPY", snap, owner)

\* triggerReaction(reaction, duration) (lines 120-126).
triggerReaction(w, reaction, snap) ==
  IF ~snap.active THEN w
  ELSE [w EXCEPT !.ks = [@ EXCEPT !.reaction = reaction],
                 !.reactionTimers = @ + 1]

\* resetIdleTimer() (lines 203-213).
resetIdleTimer(w, snap) ==
  [w EXCEPT !.idleTimer =
     IF snap.active THEN Some([due |-> now + IdleMs, snap |-> snap]) ELSE Nil]

\* A clearTimeout that cancels nothing.
clearTimeoutLeaks(timers) == timers

\* clearTimeout(focusTimerRef.current) (lines 349 and 668): the countdown
\* the ref holds, the one armed last, is cancelled if it is pending.
clearTimeout(timers) ==
  IF timers = <<>> THEN <<>> ELSE SubSeq(timers, 1, Len(timers) - 1)

\* handleStartFocusSession(task, durationMinutes) (lines 335-361).
handleStartFocusSession(w, task, durationMinutes, snap, owner) ==
  LET endTime == now + durationMinutes * MsPerMinute
      w1 == [w EXCEPT !.ks = [@ EXCEPT
               !.isFocusModeActive = TRUE,
               !.focusSessionEndTime = Some(endTime),
               !.focusSessionTask = Some(task),
               !.mood = "BUSY",
               !.status = "idle"]]
      w2 == addMessage(w1, "model", "focus started", Nil, Nil)
      w3 == speak(w2, "focus started", "BUSY", snap, owner)
  IN [w3 EXCEPT !.focusTimer =
        Append(clearTimeout(@),
               [due |-> endTime, task |-> task, snap |-> snap, owner |-> owner])]

\* handleToggleKiboActive() (lines 662-672).
handleToggleKiboActive(w) ==
  LET isActive == ~w.ks.isKiboActive
  IN [w EXCEPT
        !.idleTimer = IF ~isActive THEN Nil ELSE @,
        !.focusTimer = IF ~isActive THEN clearTimeout(@) ELSE @,
        !.ks = [@ EXCEPT !.isKiboActive = isActive, !.isFocusModeActive = FALSE]]

(* ------------------------------ storage -------------------------------- *)

\* A text is [text |-> s] for the characters s, or [json |-> tree] for the
\* text that JSON.stringify writes for a value: the tree is [lit |-> "true"],
\* [lit |-> "false"], [lit |-> "null"], [num |-> n], [str |-> s],
\* [arr |-> trees] or [obj |-> named trees].
Raw(s) == [text |-> s]
JsonBool(b) == [lit |-> IF b THEN "true" ELSE "false"]
JsonNumberOrNull(o) == IF o = Nil THEN [lit |-> "null"] ELSE [num |-> Val(o)]
JsonReminder(r) ==
  [obj |-> [id |-> [str |-> r.id], task |-> [str |-> r.task],
            time |-> [num |-> r.time], completed |-> JsonBool(r.completed),
            completedAt |-> JsonNumberOrNull(r.completedAt)]]
JsonFact(x) == [obj |-> [id |-> [str |-> x.id], fact |-> [str |-> x.fact]]]
JsonMoodEntry(e) ==
  [obj |-> [mood |-> [str |-> e.mood], timestamp |-> [num |-> e.timestamp]]]
JsonArray(seq, Enc(_)) == [arr |-> [i \in DOMAIN seq |-> Enc(seq[i])]]

\* JSON.stringify(value)
stringify(tree) == [json |-> tree]

\* JSON.parse(text): the text of a JSON value parses to that value, any
\* other text throws.
IsJson(text) == "json" \in DOMAIN text
IsLit(tree, l) == "lit" \in DOMAIN tree /\ tree.lit = l
ParseBool(tree) == IsLit(tree, "true")
ParseNumberOrNull(tree) == IF IsLit(tree, "null") THEN Nil ELSE Some(tree.num)
ParseReminder(tree) ==
  [id |-> tree.obj.id.str, task |-> tree.obj.task.str, time |-> tree.obj.time.num,
   completed |-> ParseBool(tree.obj.completed),
   completedAt |-> ParseNumberOrNull(tree.obj.completedAt)]
ParseFact(tree) == [id |-> tree.obj.id.str, fact |-> tree.obj.fact.str]
ParseMoodEntry(tree) ==
  [mood |-> tree.obj.mood.str, timestamp |-> tree.obj.timestamp.num]
ParseArray(tree, Dec(_)) == [i \in DOMAIN tree.arr |-> Dec(tree.arr[i])]

\* The keys of the persisted fields (lines 66-74 and 191-199).
JsonKeys ==
  {"kibo-reminders", "kibo-proactiveMode", "kibo-learnedFacts",
   "kibo-moodHistory", "kibo-isActive", "kibo-isFloating"}
RawKeys == {"kibo-voice", "kibo-animationPack", "kibo-avatarStyle"}
StorageKeys == JsonKeys \cup RawKeys

\* A persist effect that does not write the mood history.
persistWithoutMoodHistory(ks, stored) ==
  [stored EXCEPT
     !["kibo-reminders"] = Some(stringify(JsonArray(ks.reminders, JsonReminder))),
     !["kibo-voice"] = Some(Raw(ks.voice)),
     !["kibo-animationPack"] = Some(Raw(ks.animationPack)),
     !["kibo-avatarStyle"] = Some(Raw(ks.avatarStyle)),
     !["kibo-proactiveMode"] = Some(stringify(JsonBool(ks.isProactiveMode))),
     !["kibo-learnedFacts"] = Some(stringify(JsonArray(ks.learnedFacts, JsonFact))),
     !["kibo-isActive"] = Some(stringify(JsonBool(ks.isKiboActive))),
     !["kibo-isFloating"] = Some(stringify(JsonBool(ks.isFloatingMode)))]

\* The persist effect (lines 190-200), run after every change of kiboState.
persist(ks, stored) ==
  [stored EXCEPT
     !["kibo-reminders"] = Some(stringify(JsonArray(ks.reminders, JsonReminder))),
     !["kibo-voice"] = Some(Raw(ks.voice)),
     !["kibo-animationPack"] = Some(Raw(ks.animationPack)),
     !["kibo-avatarStyle"] = Some(Raw(ks.avatarStyle)),
     !["kibo-proactiveMode"] = Some(stringify(JsonBool(ks.isProactiveMode))),
     !["kibo-learnedFacts"] = Some(stringify(JsonArray(ks.learnedFacts, JsonFact))),
     !["kibo-moodHistory"] = Some(stringify(JsonArray(ks.moodHistory, JsonMoodEntry))),
     !["kibo-isActive"] = Some(stringify(JsonBool(ks.isKiboActive))),
     !["kibo-isFloating"] = Some(stringify(JsonBool(ks.isFloatingMode)))]

\* localStorage.getItem(key) || fallback: an absent item and the empty text
\* give the fallback.
getItemOr(stored, key, fallback) ==
  IF stored[key] = Nil \/ stored[key] = Some(Raw("")) THEN fallback
  ELSE Val(stored[key])

(* ------------------------------ effects -------------------------------- *)

\* The recognizer's isListening (line 19): a recognition is under way.
Listening(w) == \E f \in DOMAIN w.flows : w.flows[f].kind = "listen"

\* The effect of lines 115-118, run when isKiboActive or the recognizer's
\* isListening changed.
listeningEffect(w) ==
  IF ~w.ks.isKiboActive THEN w
  ELSE [w EXCEPT !.ks = [@ EXCEPT
          !.isListening = Listening(w),
          !.status = IF Listening(w) THEN "listening" ELSE "idle"]]

\* The welcome effect (lines 165-171), run when isKiboActive changed.
welcomeEffect(w) ==
  IF ~w.ks.isKiboActive \/ Len(w.ks.messages) > 0 THEN w
  ELSE speak(addMessage(w, "model", "welcome", Nil, Nil),
             "welcome", "HAPPY", Snap(w.ks), 0)

\* The effects that set state, after a run of handler code that began in
\* state old.
Effects(old, w) ==
  IF w.ks.isKiboActive # old.isKiboActive
  THEN welcomeEffect(listeningEffect(w))
  ELSE w

\* speak is re-created when voice or isKiboActive changes (line 145).
SpeakChanged(old, new) ==
  old.voice # new.voice \/ old.isKiboActive # new.isKiboActive

\* The reminder checker effect (lines 174-187): its interval is cleared and,
\* while the assistant is active, started again when a dependency changed.
reminderEffect(old, w, cur) ==
  IF w.remTouched \/ old.reminders # w.ks.reminders \/ SpeakChanged(old, w.ks)
  THEN IF w.ks.isKiboActive THEN Some(now + ReminderPollMs) ELSE Nil
  ELSE cur

\* The idle effect (lines 215-220) with resetIdleTimer's dependencies
\* (line 213).
idleEffect(old, w) ==
  IF \/ old.messages # w.ks.messages
     \/ old.mood # w.ks.mood
     \/ old.status # w.ks.status
     \/ old.isListening # w.ks.isListening
     \/ old.language # w.ks.language
     \/ SpeakChanged(old, w.ks)
  THEN IF w.ks.isKiboActive
       THEN Some([due |-> now + IdleMs, snap |-> Snap(w.ks)]) ELSE Nil
  ELSE w.idleTimer

\* The proactive effect (lines 223-258).
proactiveEffect(old, w, cur) ==
  IF \/ old.isProactiveMode # w.ks.isProactiveMode
     \/ old.isLoading # w.ks.isLoading
     \/ old.status # w.ks.status
     \/ old.language # w.ks.language
     \/ SpeakChanged(old, w.ks)
  THEN IF w.ks.isKiboActive /\ w.ks.isProactiveMode
       THEN Some(now + ProactivePollMs) ELSE Nil
  ELSE cur

\* One step of the program: the run of handler code that produced w, then
\* the effects whose dependencies it changed.
Commit(w0) ==
  LET w == Effects(kiboState, w0)
  IN /\ Len(w.speaks) <= MaxSpeaks
     /\ kiboState' = w.ks
     /\ notification' = w.notification
     /\ chatInput' = w.chatInput
     /\ speaks' = w.speaks
     /\ focusTimer' = w.focusTimer
     /\ idleTimer' = idleEffect(kiboState, w)
     /\ reminderPoll' = reminderEffect(kiboState, w, reminderPoll)
     /\ proactivePoll' = proactiveEffect(kiboState, w, proactivePoll)
     /\ reactionTimers' = w.reactionTimers
     /\ nextId' = w.nextId
     /\ storage' = persist(w.ks, storage)
     /\ mounted' = mounted
     /\ hist' = w.hist
     /\ flows' = w.flows
     /\ log' = [notifs |-> w.notifs, said |-> w.said, applied |-> w.applied,
                returned |-> w.returned, polled |-> FALSE]
     /\ now' = now

(* ------------------------- texts and directives ----------------------- *)

\* A text is a sequence of words.
IsPrefix(p, t) == Len(p) <= Len(t) /\ SubSeq(t, 1, Len(p)) = p

\* A text taken from the argument alone.
messageTextGiven(text, input) == text

\* const messageText = text || chatInput (line 365)
messageText(text, input) == IF text = <<>> THEN input ELSE text

\* !messageText.trim() (line 366)
IsBlank(text) == \A i \in DOMAIN text : text[i] = " "
\* messageText.startsWith('OPTIMIZE_PROMPT::') (lines 388, 404)
IsReserved(text) == IsPrefix(<<"OPTIMIZE_PROMPT::">>, text)
\* urlRegex.test(messageText) (lines 425, 427)
IsUrl(text) == Len(text) > 0 /\ text[1] \in {"http://a", "https://a"}
\* webKeywords (line 426), lower case
webKeywords ==
  { <<"who", "is">>, <<"what", "is">>, <<"what", "are">>, <<"search", "for">>,
    <<"look", "up">>, <<"tell", "me", "about">>, <<"summarize">> }
\* toLowerCase() of the words the inputs use
LowerWord(x) ==
  CASE x = "What" -> "what"
    [] x = "Summarize" -> "summarize"
    [] OTHER -> x
toLowerCase(text) == [i \in DOMAIN text |-> LowerWord(text[i])]
\* word.startsWith(p), for the words the inputs use
WordStartsWith(word, p) ==
  word = p \/ <<word, p>> \in {<<"isotope", "is">>, <<"summarizes", "summarize">>}
\* text.startsWith(kw): startsWith compares characters, so the last word of
\* kw need only begin the word of text at its place
startsWith(text, kw) ==
  /\ Len(kw) <= Len(text)
  /\ SubSeq(text, 1, Len(kw) - 1) = SubSeq(kw, 1, Len(kw) - 1)
  /\ WordStartsWith(text[Len(kw)], kw[Len(kw)])
\* isWebQuery (line 427)
isWebQuery(text) ==
  IsUrl(text) \/ \E kw \in webKeywords : startsWith(toLowerCase(text), kw)

\* A function call of a conversational response: its name, its string
\* argument and its number argument.
Call(name, arg, n) == [name |-> name, arg |-> arg, n |-> n]

\* The preset table (lines 272-279), its keys spelled out; "" when the
\* name is no key of it.
presetMap(upperCaseName) ==
  CASE upperCaseName = <<"K", "I", "B", "O">> -> "ABSTRACT"
    [] upperCaseName = <<"K", "I", "K", "O">> -> "ANIME_GIRL"
    [] upperCaseName = <<"A", "N", "I", "M", "E", "_", "G", "I", "R", "L">> -> "ANIME_GIRL"
    [] upperCaseName = <<"M", "U", "Z", "A", "N">> -> "MUZAN"
    [] upperCaseName = <<"G", "O", "J", "O">> -> "GOJO"
    [] upperCaseName = <<"A", "B", "S", "T", "R", "A", "C", "T">> -> "ABSTRACT"
    [] OTHER -> ""

\* The characters of the names the inputs use.
Chars(characterName) ==
  CASE characterName = "MUZAN" ->
         <<"M", "U", "Z", "A", "N">>
    [] characterName = "Muzan" ->
         <<"M", "u", "z", "a", "n">>
    [] characterName = "muzan" ->
         <<"m", "u", "z", "a", "n">>
    [] characterName = "Kibo" ->
         <<"K", "i", "b", "o">>
    [] characterName = "KIBO" ->
         <<"K", "I", "B", "O">>
    [] characterName = "kibo" ->
         <<"k", "i", "b", "o">>
    [] characterName = "Gojo" ->
         <<"G", "o", "j", "o">>
    [] characterName = "gojo" ->
         <<"g", "o", "j", "o">>
    [] characterName = "Kiko" ->
         <<"K", "i", "k", "o">>
    [] characterName = "kiko" ->
         <<"k", "i", "k", "o">>
    [] characterName = "Kiko (Anime Girl)" ->
         <<"K", "i", "k", "o", " ", "(", "A", "n", "i", "m", "e", " ", "G", "i", "r", "l", ")">>
    [] characterName = "kiko (anime girl)" ->
         <<"k", "i", "k", "o", " ", "(", "a", "n", "i", "m", "e", " ", "g", "i", "r", "l", ")">>
    [] characterName = "Anime Girl" ->
         <<"A", "n", "i", "m", "e", " ", "G", "i", "r", "l">>
    [] characterName = "a wise old dragon" ->
         <<"a", " ", "w", "i", "s", "e", " ", "o", "l", "d", " ", "d", "r", "a", "g", "o", "n">>
    [] OTHER -> <<characterName>>

LowerCase == <<"a", "b", "c", "d", "e", "f", "g", "h", "i", "j", "k", "l", "m", "n", "o", "p", "q", "r", "s", "t", "u", "v", "w", "x", "y", "z">>
UpperCase == <<"A", "B", "C", "D", "E", "F", "G", "H", "I", "J", "K", "L", "M", "N", "O", "P", "Q", "R", "S", "T", "U", "V", "W", "X", "Y", "Z">>
\* toUpperCase() (line 280)
toUpperCase(chars) ==
  [i \in DOMAIN chars |->
     IF \E k \in DOMAIN LowerCase : LowerCase[k] = chars[i]
     THEN UpperCase[CHOOSE k \in DOMAIN LowerCase : LowerCase[k] = chars[i]]
     ELSE chars[i]]
\* replace(/\(.*\)/g, '') (line 280): what stands from the first "(" to the
\* last ")" after it is removed.
stripParens(chars) ==
  LET opens == {i \in DOMAIN chars : chars[i] = "("}
      first == Min(opens)
      closes == {j \in DOMAIN chars : chars[j] = ")" /\ j > first}
      last == CHOOSE j \in closes : \A k \in closes : k <= j
  IN IF opens = {} \/ closes = {} THEN chars
     ELSE SubSeq(chars, 1, first - 1) \o SubSeq(chars, last + 1, Len(chars))
\* replace(/ /g, '_') (line 280)
spacesToUnderscores(chars) ==
  [i \in DOMAIN chars |-> IF chars[i] = " " THEN "_" ELSE chars[i]]
\* trim() (line 280)
trim(chars) ==
  LET kept == {i \in DOMAIN chars : chars[i] # " "}
  IN IF kept = {} THEN <<>>
     ELSE SubSeq(chars, Min(kept), CHOOSE j \in kept : \A k \in kept : k <= j)

\* characterName.toUpperCase().replace(/\(.*\)/g, '').replace(/ /g, '_').trim()
\* (line 280)
upperCaseName(characterName) ==
  trim(spacesToUnderscores(stripParens(toUpperCase(Chars(characterName)))))

\* presetNameMap (lines 286-292)
presetNameMap(style) ==
  CASE style = "ABSTRACT" -> "Kibo"
    [] style = "ANIME_GIRL" -> "Kiko"
    [] style = "MUZAN" -> "Muzan"
    [] style = "GOJO" -> "Gojo"
    [] OTHER -> "Kibo"

(* ----------------------------- workflows ------------------------------- *)

FlowIds == 1..MaxFlows

\* An empty slot; a workflow in flight fills the fields its handler uses
\* (issued: the capability calls a transform has made so far; input: the
\* chatInput of the render a recognizer callback was created in).
NoFlow ==
  [kind |-> "none", pc |-> "free", op |-> 0,
   snap |-> [active |-> FALSE, voice |-> "Puck", userLang |-> "en-US",
            status |-> "idle", listening |-> FALSE],
   owner |-> 0, text |-> <<>>, file |-> "none", mood |-> "NEUTRAL",
   calls |-> <<>>, reply |-> "", prompt |-> <<>>, input |-> <<>>, parent |-> 0,
   name |-> "",
   newVoice |-> "Puck", reminders |-> <<>>, issued |-> <<>>,
   inferenceFailed |-> FALSE]

Free(f) == flows[f].pc = "free"
FreeSlot == Min({f \in FlowIds : Free(f)})
HasFreeSlot == \E f \in FlowIds : Free(f)
InFlight(kind) == {f \in FlowIds : flows[f].kind = kind /\ ~Free(f)}

\* The continuation of an await on a nested handler is the next thing to run.
Resuming == \E f \in FlowIds : flows[f].pc = "resume"

\* A new entry of hist for a user operation; the outcome, the error
\* notifications and the position of its entry in moodHistory (0 before its
\* mood is detected) are recorded for a dispatch (handleSendMessage) only.
OpStart(w, kind) ==
  [w EXCEPT !.hist =
     Append(@, IF kind = "send"
               THEN [kind |-> "send", outcome |-> "running", errs |-> 0,
                     moodAt |-> 0]
               ELSE [kind |-> "other", outcome |-> "done", errs |-> 0])]
OpEnd(w, op, outcome) ==
  IF op \in DOMAIN w.hist /\ w.hist[op].kind = "send"
  THEN [w EXCEPT !.hist[op].outcome = outcome] ELSE w
CanStart == Len(hist) < MaxOps /\ ~Resuming

(* ------------------------------- Init ---------------------------------- *)

SavedReminderLists ==
  { <<>>,
    <<NewReminder(1, "call mom", 10000), NewReminder(2, "report", 30000)>> }

\* The initial KiboState (lines 65-101) for what storage held.
InitialState(savedReminders, savedIsKiboActive, savedProactiveMode) ==
  [messages |-> <<>>, reminders |-> savedReminders, mood |-> "NEUTRAL",
   status |-> "idle", isLoading |-> FALSE, isListening |-> FALSE,
   language |-> "en-US", userPreferredLanguage |-> "en-US",
   reaction |-> "NONE", voice |-> "Puck", animationPack |-> "DEFAULT",
   avatarStyle |-> "ABSTRACT", generatedAvatarUrl |-> Nil,
   currentCharacterName |-> Nil, isProactiveMode |-> savedProactiveMode,
   learnedFacts |-> <<>>, moodHistory |-> <<>>, isFocusModeActive |-> FALSE,
   focusSessionEndTime |-> Nil, focusSessionTask |-> Nil,
   isKiboActive |-> savedIsKiboActive, isFloatingMode |-> FALSE]

\* The state before the first effects run.
Mount(ks) ==
  [ks |-> ks, notification |-> Nil, speaks |-> <<>>, focusTimer |-> Nil,
   idleTimer |-> Nil, reactionTimers |-> 0, nextId |-> Len(ks.reminders) + 1,
   hist |-> <<>>, flows |-> <<>>, notifs |-> <<>>, said |-> <<>>,
   applied |-> <<>>, returned |-> Nil, remTouched |-> FALSE]

\* The state initializer (lines 65-101) over what storage holds: it throws
\* when JSON.parse does, and otherwise takes every stored value as it is.
initializer(stored) ==
  LET text(key, fallback) == getItemOr(stored, key, stringify(fallback))
      reminders == text("kibo-reminders", [arr |-> <<>>])
      proactive == text("kibo-proactiveMode", JsonBool(FALSE))
      facts == text("kibo-learnedFacts", [arr |-> <<>>])
      moods == text("kibo-moodHistory", [arr |-> <<>>])
      active == text("kibo-isActive", JsonBool(TRUE))
      floating == text("kibo-isFloating", JsonBool(FALSE))
  IN IF \E t \in {reminders, proactive, facts, moods, active, floating} : ~IsJson(t)
     THEN [threw |-> TRUE]
     ELSE [threw |-> FALSE,
           ks |-> [InitialState(ParseArray(reminders.json, ParseReminder),
                                ParseBool(active.json), ParseBool(proactive.json))
                     EXCEPT !.voice = getItemOr(stored, "kibo-voice", Raw("Puck")).text,
                            !.animationPack =
                               getItemOr(stored, "kibo-animationPack", Raw("DEFAULT")).text,
                            !.avatarStyle =
                               getItemOr(stored, "kibo-avatarStyle", Raw("ABSTRACT")).text,
                            !.learnedFacts = ParseArray(facts.json, ParseFact),
                            !.moodHistory = ParseArray(moods.json, ParseMoodEntry),
                            !.isFloatingMode = ParseBool(floating.json)]]

\* The state after construction: the initial state, then the effects of the
\* first render.
InitFrom(savedLists, actives) ==
  \E saved \in savedLists, active \in actives :
    LET w == welcomeEffect(listeningEffect(Mount(InitialState(saved, active, FALSE))))
    IN /\ now = 0
       /\ kiboState = w.ks
       /\ notification = w.notification
       /\ chatInput = <<>>
       /\ speaks = w.speaks
       /\ focusTimer = Nil
       /\ idleTimer = IF active THEN Some([due |-> IdleMs, snap |-> Snap(w.ks)])
                     ELSE Nil
       /\ reminderPoll = IF active THEN Some(ReminderPollMs) ELSE Nil
       /\ proactivePoll = Nil
       /\ reactionTimers = 0
       /\ nextId = w.nextId
       /\ storage = persist(w.ks, [k \in StorageKeys |-> Nil])
       /\ mounted = TRUE
       /\ hist = <<>>
       /\ flows = [f \in FlowIds |-> NoFlow]
       /\ log = [notifs |-> <<>>, said |-> w.said, applied |-> <<>>,
                 returned |-> Nil, polled |-> FALSE]

Init == InitFrom(SavedReminderLists, BOOLEAN)

(* --------------------------- time and timers --------------------------- *)

Deadlines ==
  {focusTimer[i].due : i \in DOMAIN focusTimer}
  \cup (IF idleTimer # Nil THEN {Val(idleTimer).due} ELSE {})
  \cup (IF reminderPoll # Nil THEN {Val(reminderPoll)} ELSE {})
  \cup (IF proactivePoll # Nil THEN {Val(proactivePoll)} ELSE {})

\* Time passes, up to the next timer that is due; a reaction's timeout
\* (at most one second) fires before the clock's next step.
TickUntil(limit) ==
  /\ ~Resuming
  /\ reactionTimers = 0
  /\ \A d \in Deadlines : d > now
  /\ now' = Min({now + ReminderPollMs} \cup Deadlines)
  /\ now' <= limit * ReminderPollMs
  /\ log' = [notifs |-> <<>>, said |-> <<>>, applied |-> <<>>, returned |-> Nil,
             polled |-> FALSE]
  /\ UNCHANGED <<kiboState, notification, chatInput, focusTimer, idleTimer,
                 reminderPoll, proactivePoll, reactionTimers, flows, speaks,
                 nextId, storage, mounted, hist>>

Tick == TickUntil(MaxPeriods)

\* The timeout of triggerReaction (lines 123-125).
ReactionTimeout ==
  /\ ~Resuming
  /\ reactionTimers > 0
  /\ Commit([World EXCEPT !.ks = [@ EXCEPT !.reaction = "NONE"],
                          !.reactionTimers = @ - 1])

\* The idle timer's callback (lines 206-212) up to its await: the timeout is
\* spent, and the fun fact is requested when the render the callback closes
\* over had status Idle and no voice input.
idleFired(w, slot) ==
  LET t == Val(w.idleTimer)
      w1 == [w EXCEPT !.idleTimer = Nil]
  IN IF t.snap.status = "idle" /\ ~t.snap.listening
     THEN [w1 EXCEPT !.flows[slot] =
             [NoFlow EXCEPT !.kind = "idle", !.pc = "call", !.snap = t.snap]]
     ELSE w1

IdleFire ==
  /\ ~Resuming /\ HasFreeSlot
  /\ idleTimer # Nil /\ now >= Val(idleTimer).due
  /\ Commit(idleFired(World, FreeSlot))

\* A callback that appends the fun fact without speaking it.
idleAnsweredSilently(w, f, response) ==
  [addMessage(w, "model", response, Nil, Nil) EXCEPT !.flows[f] = NoFlow]

\* generateFunFactOrJoke resolved (lines 208-210).
idleAnswered(w, f, response) ==
  LET w1 == addMessage(w, "model", response, Nil, Nil)
  IN [speak(w1, response, "PLAYFUL", w.flows[f].snap, 0) EXCEPT !.flows[f] = NoFlow]

IdleAnswered(f, response) ==
  /\ ~Resuming
  /\ flows[f].kind = "idle" /\ flows[f].pc = "call"
  /\ Commit(idleAnswered(World, f, response))

\* generateFunFactOrJoke rejected: the callback has no catch and ends.
IdleFailed(f) ==
  /\ ~Resuming
  /\ flows[f].kind = "idle" /\ flows[f].pc = "call"
  /\ Commit([World EXCEPT !.flows[f] = NoFlow])

\* The focus countdown's callback (lines 350-360).
focusExpired(w, i) ==
  LET t == w.focusTimer[i]
      w1 == [w EXCEPT
               !.ks = [@ EXCEPT !.isFocusModeActive = FALSE,
                                !.focusSessionEndTime = Nil,
                                !.focusSessionTask = Nil],
               !.focusTimer = Remove(@, i)]
      w2 == setNotification(w1, "info", "focus complete", t.owner)
  IN speak(w2, "focus complete", "HAPPY", t.snap, t.owner)

FocusExpire ==
  /\ ~Resuming
  /\ \E i \in DOMAIN focusTimer :
       /\ now >= focusTimer[i].due
       /\ Commit(focusExpired(World, i))

\* A tick that alerts for every reminder that is past due, completed or not.
RECURSIVE remindFromAll(_, _, _)
remindFromAll(w, rs, k) ==
  IF k > Len(rs) THEN w
  ELSE IF now >= rs[k].time
       THEN remindFromAll(speak(setNotification(w, "reminder", rs[k].task, 0),
                                rs[k].task, "BUSY", Snap(kiboState), 0),
                          rs, k + 1)
       ELSE remindFromAll(w, rs, k + 1)

\* One tick of the reminder checker (lines 176-185) over the reminders
\* from position k on.
RECURSIVE remindFrom(_, _, _)
remindFrom(w, rs, k) ==
  IF k > Len(rs) THEN w
  ELSE IF ~rs[k].completed /\ now >= rs[k].time
       THEN remindFrom(speak(setNotification(w, "reminder", rs[k].task, 0),
                             rs[k].task, "BUSY", Snap(kiboState), 0),
                       rs, k + 1)
       ELSE remindFrom(w, rs, k + 1)

ReminderPollTick ==
  /\ ~Resuming
  /\ reminderPoll # Nil
  /\ now >= Val(reminderPoll)
  /\ reminderPoll' = Some(Val(reminderPoll) + ReminderPollMs)
  /\ LET w == remindFrom(World, kiboState.reminders, 1)
     IN /\ Len(w.speaks) <= MaxSpeaks
        /\ kiboState' = w.ks
        /\ notification' = w.notification
        /\ speaks' = w.speaks
        /\ idleTimer' = idleEffect(kiboState, w)
        /\ proactivePoll' = proactiveEffect(kiboState, w, proactivePoll)
        /\ log' = [notifs |-> w.notifs, said |-> w.said, applied |-> <<>>,
                   returned |-> Nil, polled |-> TRUE]
        /\ storage' = persist(w.ks, storage)
        /\ UNCHANGED <<chatInput, now, focusTimer, reactionTimers, flows, nextId,
                       mounted, hist>>

(* -------------------------------- speak -------------------------------- *)

\* A finally that also puts the mood back to Neutral.
speakFinallyNeutral(w, i) ==
  [w EXCEPT !.speaks = Remove(@, i),
            !.ks = [@ EXCEPT !.status = "idle", !.mood = "NEUTRAL"],
            !.returned = Some([by |-> "speak", mood |-> w.speaks[i].mood, ok |-> TRUE])]

\* speak's finally (lines 141-144).
speakFinally(w, i) ==
  [w EXCEPT !.speaks = Remove(@, i), !.ks = [@ EXCEPT !.status = "idle"],
            !.returned = Some([by |-> "speak", mood |-> w.speaks[i].mood, ok |-> TRUE])]

\* textToSpeech and then playAudio resolved (lines 136-137): nothing is
\* written between the two awaits, so they are one step.
SpeakPlayed(i) ==
  /\ ~Resuming
  /\ Commit(speakFinally(World, i))

\* textToSpeech or playAudio rejected: speak's catch (lines 138-140).
speakCatch(w, i) ==
  LET w1 == speakFinally(setNotification(w, "error", "unable to speak",
                                         w.speaks[i].owner), i)
  IN [w1 EXCEPT !.returned = Some([Val(@) EXCEPT !.ok = FALSE])]

SpeakFailed(i) ==
  /\ ~Resuming
  /\ Commit(speakCatch(World, i))

(* ------------------------- synchronous handlers ------------------------ *)

FocusTasks == {"write the report"}
DurationChoices == {1}

\* The power switch (part_002 line 357, App.tsx line 274).
ToggleKiboActive ==
  /\ CanStart
  /\ Commit(handleToggleKiboActive(OpStart(World, "toggle")))

\* The Start button of the productivity tab (part_002 lines 201-209, 510).
StartFocusClick(task, minutes) ==
  /\ CanStart
  /\ kiboState.isKiboActive
  /\ ~kiboState.isLoading /\ ~kiboState.isFocusModeActive
  /\ minutes > 0
  /\ LET w == OpStart(World, "focus")
         op == Len(w.hist)
     IN Commit(OpEnd(handleStartFocusSession(w, task, minutes, Snap(kiboState), 0),
                     op, "done"))

(* ------------------------ handleCharacterChange ------------------------ *)

FoundPreset(name) == presetMap(upperCaseName(name)) # ""

\* Lines 260-264, and which await comes first (lines 283, 295).
characterChangeStart(w, slot, name, snap, op, owner, parent) ==
  LET w1 == [w EXCEPT !.ks = [@ EXCEPT !.status = "thinking", !.isLoading = TRUE]]
      w2 == addMessage(w1, "model", "transforming", Nil, Nil)
      w3 == speak(w2, "transforming", "BUSY", snap, owner)
  IN [w3 EXCEPT !.flows[slot] =
        [NoFlow EXCEPT !.kind = "cc", !.op = op, !.owner = owner, !.snap = snap,
                       !.parent = parent, !.name = name,
                       !.pc = IF FoundPreset(name) THEN "confirm" ELSE "generate",
                       !.issued = IF FoundPreset(name)
                                  THEN <<"getConversationalResponse">>
                                  ELSE <<"generateCharacterAvatar",
                                         "getVoiceForCharacter">>]]

\* The end of handleCharacterChange: a dispatch that awaits it runs next.
characterChangeEnd(w, f, ok) ==
  LET fl == w.flows[f]
      w1 == [w EXCEPT !.flows[f] = NoFlow,
                      !.returned = Some([by |-> "transform", name |-> fl.name,
                                         issued |-> fl.issued, ok |-> ok,
                                         inferenceFailed |-> fl.inferenceFailed])]
  IN IF fl.parent # 0
     THEN [w1 EXCEPT !.flows[fl.parent].pc = "resume"]
     ELSE OpEnd(w1, fl.op, "done")

\* The resolved persona (lines 283-306).
NewStyle(fl) ==
  IF FoundPreset(fl.name) THEN presetMap(upperCaseName(fl.name)) ELSE "GENERATED"
NewVoiceInferred(fl) == fl.newVoice
NewVoice(fl) ==
  IF FoundPreset(fl.name) THEN avatarVoiceMap[NewStyle(fl)] ELSE fl.newVoice
NewAvatarUrl(fl) == IF FoundPreset(fl.name) THEN Nil ELSE Some("avatar")
NewCharName(fl) ==
  IF FoundPreset(fl.name) THEN Some(presetNameMap(NewStyle(fl))) ELSE Some(fl.name)
NewLang(fl) ==
  IF NewStyle(fl) \in {"ANIME_GIRL", "MUZAN", "GOJO"} \/ ~FoundPreset(fl.name)
  THEN "ja-JP" ELSE fl.snap.userLang

\* The confirmation arrived (lines 309-323).
characterChangeConfirmed(w, f, confirmationText) ==
  LET fl == w.flows[f]
      w1 == [w EXCEPT !.ks = [@ EXCEPT
               !.avatarStyle = NewStyle(fl),
               !.voice = NewVoice(fl),
               !.generatedAvatarUrl = NewAvatarUrl(fl),
               !.currentCharacterName = NewCharName(fl),
               !.language = NewLang(fl),
               !.isLoading = FALSE,
               !.status = "idle"]]
      w2 == addMessage(w1, "model", confirmationText, Nil, Nil)
      w3 == speak(w2, confirmationText, "HAPPY", fl.snap, fl.owner)
  IN characterChangeEnd(w3, f, TRUE)

\* A catch that falls back to the default persona.
characterChangeCatchDefault(w, f) ==
  LET fl == w.flows[f]
      w1 == addMessage(w, "model", "could not transform", Nil, Nil)
      w2 == speak(w1, "could not transform", "SAD", fl.snap, fl.owner)
      w3 == [w2 EXCEPT !.ks = [@ EXCEPT !.status = "idle", !.isLoading = FALSE,
                                        !.avatarStyle = "ABSTRACT", !.voice = "Puck"]]
  IN characterChangeEnd(w3, f, FALSE)

\* The catch of handleCharacterChange (lines 325-331).
characterChangeCatch(w, f) ==
  LET fl == w.flows[f]
      w1 == addMessage(w, "model", "could not transform", Nil, Nil)
      w2 == speak(w1, "could not transform", "SAD", fl.snap, fl.owner)
      w3 == [w2 EXCEPT !.ks = [@ EXCEPT !.status = "idle", !.isLoading = FALSE]]
  IN characterChangeEnd(w3, f, FALSE)

\* getVoiceForCharacter (part_005 lines 238-269) for the model's answer: a
\* voice name, or no usable answer (the request or the parse threw), which
\* falls back to Puck.
getVoiceForCharacter(answer) == IF answer \in Voices THEN answer ELSE "Puck"

\* Promise.all of generateCharacterAvatar and getVoiceForCharacter resolved
\* (lines 295-303); getVoiceForCharacter never rejects.
CharacterGenerated(f, answer) ==
  /\ ~Resuming
  /\ flows[f].kind = "cc" /\ flows[f].pc = "generate"
  /\ Commit([World EXCEPT !.flows[f].newVoice = getVoiceForCharacter(answer),
                          !.flows[f].inferenceFailed = answer \notin Voices,
                          !.flows[f].pc = "confirm",
                          !.flows[f].issued = Append(@, "getConversationalResponse")])

\* getConversationalResponse resolved (line 309).
CharacterConfirmed(f, confirmationText) ==
  /\ ~Resuming
  /\ flows[f].kind = "cc" /\ flows[f].pc = "confirm"
  /\ Commit(characterChangeConfirmed(World, f, confirmationText))

\* generateCharacterAvatar or getConversationalResponse rejected.
CharacterFailed(f) ==
  /\ ~Resuming
  /\ flows[f].kind = "cc" /\ flows[f].pc \in {"generate", "confirm"}
  /\ Commit(characterChangeCatch(World, f))

\* A preset button or the Transform button of the avatar tab (part_002
\* lines 210-216, 544-545, 564-565).
CharacterClick(name) ==
  /\ CanStart /\ HasFreeSlot
  /\ kiboState.isKiboActive /\ ~kiboState.isLoading
  /\ LET w == OpStart(World, "cc")
     IN Commit(characterChangeStart(w, FreeSlot, name, Snap(kiboState),
                                    Len(w.hist), 0, 0))

(* --------------------------- handleSendMessage -------------------------- *)

\* The finally of a handler (lines 493-495 and the like), and its end.
finish(w, f, outcome) ==
  LET w1 == [w EXCEPT !.ks = [@ EXCEPT !.isLoading = FALSE, !.status = "idle"]]
  IN OpEnd([w1 EXCEPT !.flows[f] = NoFlow], w.flows[f].op, outcome)

\* Lines 388-396: the user message, setChatInput(''), then detectMood is
\* awaited.
sendAfterFile(w, f) ==
  LET fl == w.flows[f]
      imageUrl == IF fl.file = "image" THEN Some("blob") ELSE Nil
      w1 == IF ~IsReserved(fl.text)
            THEN addMessage(w, "user", "user text", imageUrl, Nil)
            ELSE w
  IN [w1 EXCEPT !.chatInput = <<>>, !.flows[f].pc = "mood"]

\* Lines 364-386: up to the first await.
sendStart(w, slot, text, file, snap, op) ==
  LET w1 == resetIdleTimer(w, snap)
      w2 == triggerReaction(w1, "HEAD_TILT", snap)
      w3 == [w2 EXCEPT
               !.ks = [@ EXCEPT !.isLoading = TRUE, !.status = "thinking"],
               !.flows[slot] =
                 [NoFlow EXCEPT !.kind = "send", !.pc = "file", !.op = op,
                                !.owner = op, !.snap = snap, !.text = text,
                                !.file = file]]
  IN IF file \in {"image", "text", "emptytext"} THEN w3 ELSE sendAfterFile(w3, slot)

\* A routing that knows the keywords but not the URLs.
RouteByKeyword(fl) ==
  CASE IsReserved(fl.text) -> "optimize"
    [] ~IsReserved(fl.text) /\ fl.file = "image" -> "image"
    [] ~IsReserved(fl.text) /\ fl.file = "text" -> "summarize"
    [] OTHER -> IF \E kw \in webKeywords : startsWith(toLowerCase(fl.text), kw)
                THEN "web" ELSE "conv"

\* A routing that looks at the text before the file.
RouteByTextFirst(fl) ==
  CASE IsReserved(fl.text) -> "optimize"
    [] ~IsReserved(fl.text) /\ isWebQuery(fl.text) -> "web"
    [] ~IsReserved(fl.text) /\ ~isWebQuery(fl.text) /\ fl.file = "image" -> "image"
    [] ~IsReserved(fl.text) /\ ~isWebQuery(fl.text) /\ fl.file = "text" -> "summarize"
    [] OTHER -> "conv"

\* Which capability answers (lines 404, 415, 419, 427-429).
Route(fl) ==
  CASE IsReserved(fl.text) -> "optimize"
    [] ~IsReserved(fl.text) /\ fl.file = "image" -> "image"
    [] ~IsReserved(fl.text) /\ fl.file = "text" -> "summarize"
    [] OTHER -> IF isWebQuery(fl.text) THEN "web" ELSE "conv"

\* The instruction the capability is given (lines 406, 416, 420, 430-433,
\* 441).
capabilityPrompt(fl) ==
  CASE Route(fl) = "optimize" -> Tail(fl.text)
    [] Route(fl) = "summarize" ->
         IF fl.text = <<>> THEN <<"Please summarize this document for me.">>
         ELSE fl.text
    [] Route(fl) = "web" ->
         IF IsUrl(fl.text) THEN <<"Please summarize this webpage for me:">> \o fl.text
         ELSE fl.text
    [] OTHER -> fl.text

\* A handler that puts the new entry first.
moodDetectedFirst(w, f, detectedMood) ==
  [w EXCEPT
     !.ks = [@ EXCEPT !.mood = detectedMood,
                      !.moodHistory = <<[mood |-> detectedMood, timestamp |-> now]>> \o @],
     !.hist[w.flows[f].op].moodAt = 1,
     !.flows[f].mood = detectedMood,
     !.flows[f].prompt = capabilityPrompt(w.flows[f]),
     !.flows[f].pc = Route(w.flows[f])]

\* Lines 397-401.
moodDetected(w, f, detectedMood) ==
  [w EXCEPT
     !.ks = [@ EXCEPT !.mood = detectedMood,
                      !.moodHistory = Append(@, [mood |-> detectedMood, timestamp |-> now])],
     !.hist[w.flows[f].op].moodAt = Len(w.ks.moodHistory) + 1,
     !.flows[f].mood = detectedMood,
     !.flows[f].prompt = capabilityPrompt(w.flows[f]),
     !.flows[f].pc = Route(w.flows[f])]

\* Lines 405-411.
optimized(w, f) ==
  LET fl == w.flows[f]
      w1 == addMessage(w, "model", "intro", Nil, Nil)
      w2 == speak(w1, "intro", "NEUTRAL", fl.snap, fl.owner)
  IN finish(addMessage(w2, "model", "new prompt", Nil, Nil), f, "done")

\* Lines 416-418, 421-423 and 434-436.
answered(w, f, responseText, sources) ==
  LET fl == w.flows[f]
      w1 == addMessage(w, "model", responseText, Nil, sources)
  IN finish(speak(w1, responseText, fl.mood, fl.snap, fl.owner), f, "done")

\* Lines 479-482, then the finally.
sendText(w, f) ==
  LET fl == w.flows[f]
      w1 == IF fl.reply # ""
            THEN speak(addMessage(w, "model", fl.reply, Nil, Nil),
                       fl.reply, fl.mood, fl.snap, fl.owner)
            ELSE w
  IN finish(w1, f, "done")

\* A loop body that applies nothing.
applyCallForgets(w, fl, call) == w

\* One function call other than changeCharacter (lines 453-475).
applyCall(w, fl, call) ==
  CASE call.name = "extractFact" /\ call.arg # "" ->
         triggerReaction(
           [w EXCEPT !.ks = [@ EXCEPT !.learnedFacts =
                               Append(@, [id |-> w.nextId, fact |-> call.arg])],
                     !.nextId = @ + 1],
           "NOD", fl.snap)
    [] call.name = "setReminder" /\ call.arg # "" /\ call.n # 0 ->
         triggerReaction(
           addReminder(w, call.arg, now + call.n * MsPerSecond, fl.snap, fl.owner),
           "NOD", fl.snap)
    [] call.name = "startFocusSession" /\ call.arg # "" /\ call.n # 0 ->
         handleStartFocusSession(w, call.arg, call.n, fl.snap, fl.owner)
    [] call.name = "launchApplication" /\ call.arg # "" ->
         triggerReaction(setNotification(w, "info", "launching", fl.owner),
                         "NOD", fl.snap)
    [] OTHER -> w

\* The loop over functionCalls (lines 448-477) from the calls left, up to
\* the await of handleCharacterChange or to the end of the handler.
RECURSIVE applyCalls(_, _)
applyCalls(w, f) ==
  LET fl == w.flows[f]
  IN IF fl.calls = <<>> THEN sendText(w, f)
     ELSE LET call == Head(fl.calls)
              w1 == [w EXCEPT !.flows[f].calls = Tail(@),
                              !.applied = Append(@, call)]
          IN IF call.name = "changeCharacter" /\ call.arg # ""
             THEN characterChangeStart(
                    [w1 EXCEPT !.flows[f].pc = "await"],
                    Min({g \in FlowIds : w1.flows[g].pc = "free"}),
                    call.arg, fl.snap, 0, fl.owner, f)
             ELSE applyCalls(applyCall(w1, fl, call), f)

\* A catch that shows no notification.
sendCatchSilent(w, f) ==
  LET fl == w.flows[f]
      w1 == addMessage(w, "model", "apology", Nil, Nil)
      w2 == speak(w1, "apology", "SAD", fl.snap, fl.owner)
  IN finish(triggerReaction(w2, "SURPRISED", fl.snap), f, "threw")

\* The catch of handleSendMessage (lines 486-492), then the finally.
sendCatch(w, f) ==
  LET fl == w.flows[f]
      w1 == addMessage(w, "model", "apology", Nil, Nil)
      w2 == speak(w1, "apology", "SAD", fl.snap, fl.owner)
      w3 == setNotification(w2, "error", "failed to connect", fl.owner)
  IN finish(triggerReaction(w3, "SURPRISED", fl.snap), f, "threw")

ChangesCharacter(calls) ==
  \E i \in DOMAIN calls : calls[i].name = "changeCharacter" /\ calls[i].arg # ""

\* handleSendMessage(text, file) is called (line 364) from a render whose
\* input field holds input.
SendMessage(text, file, input) ==
  /\ CanStart /\ HasFreeSlot
  /\ ~(IsBlank(messageText(text, input)) /\ file = "none")
  /\ LET w == OpStart([World EXCEPT !.chatInput = input], "send")
     IN Commit(sendStart(w, FreeSlot, messageText(text, input), file,
                         Snap(kiboState), Len(w.hist)))

\* The text is typed (onInputChange, App.tsx line 229) and the Send button
\* is clicked (part_002 lines 147-153, 634).
SendClick(text, file) ==
  /\ kiboState.isKiboActive /\ ~kiboState.isLoading
  /\ ~IsReserved(text)
  /\ ~IsBlank(text) \/ file # "none"
  /\ SendMessage(text, file, text)

\* The input field is edited (App.tsx line 229); it is disabled while
\* isLoading (part_002 line 629).
Type(text) ==
  /\ mounted /\ ~kiboState.isLoading
  /\ text # chatInput
  /\ Commit([World EXCEPT !.chatInput = text])

\* The Optimize button (part_002 lines 193-199, 584).
OptimizeClick(goal) ==
  /\ kiboState.isKiboActive /\ ~kiboState.isLoading
  /\ SendMessage(<<"OPTIMIZE_PROMPT::", goal>>, "none", chatInput)

\* The microphone button (part_002 line 631; toggleListening, lines 52-59):
\* recognition starts with the handlers of this render; the listening effect
\* (lines 115-118) follows.
MicClick ==
  /\ CanStart /\ HasFreeSlot
  /\ kiboState.isKiboActive /\ ~Listening(World)
  /\ Commit(listeningEffect(
       [World EXCEPT !.flows[FreeSlot] =
          [NoFlow EXCEPT !.kind = "listen", !.pc = "listening",
                         !.snap = Snap(kiboState), !.input = chatInput]]))

\* recognition.onresult (lines 33-37, 110-113): setChatInput(transcript) and
\* handleSendMessage(transcript), whatever isLoading is, then
\* setIsListening(false) and the listening effect.  The handler is the one
\* of the render the recognizer was created in, and returns at line 366
\* when its text is blank.
speechRecognized(w, f, transcript) ==
  LET fl == w.flows[f]
      text == messageText(transcript, fl.input)
      w0 == [w EXCEPT !.chatInput = transcript,
                      !.returned = Some([by |-> "recognizer",
                                         transcript |-> transcript,
                                         input |-> fl.input])]
      w1 == OpStart(w0, "send")
  IN listeningEffect(
       IF IsBlank(text) THEN [w0 EXCEPT !.flows[f] = NoFlow]
       ELSE sendStart(w1, f, text, "none", fl.snap, Len(w1.hist)))

SpeechRecognized(f, transcript) ==
  /\ CanStart
  /\ flows[f].kind = "listen" /\ flows[f].pc = "listening"
  /\ Commit(speechRecognized(World, f, transcript))

\* fileToBase64 or readFileAsText resolved (lines 380, 384).
FileRead(f) ==
  /\ ~Resuming
  /\ flows[f].kind = "send" /\ flows[f].pc = "file"
  /\ Commit(sendAfterFile(World, f))

\* fileToBase64 or readFileAsText rejected: the await is outside the try,
\* so the handler ends here.
FileFailed(f) ==
  /\ ~Resuming
  /\ flows[f].kind = "send" /\ flows[f].pc = "file"
  /\ Commit(OpEnd([World EXCEPT !.flows[f] = NoFlow], flows[f].op, "rejected"))

\* detectMood resolved (line 396); it never rejects (part_005 358-361).
MoodDetected(f, detectedMood) ==
  /\ ~Resuming
  /\ flows[f].kind = "send" /\ flows[f].pc = "mood"
  /\ Commit(moodDetected(World, f, detectedMood))

\* optimizePrompt resolved (line 406).
Optimized(f) ==
  /\ ~Resuming
  /\ flows[f].kind = "send" /\ flows[f].pc = "optimize"
  /\ Commit(optimized(World, f))

\* getTextFromImage or summarizeTextContent resolved (lines 416, 421).
Described(f, responseText) ==
  /\ ~Resuming
  /\ flows[f].kind = "send" /\ flows[f].pc \in {"image", "summarize"}
  /\ Commit(answered(World, f, responseText, Nil))

\* getWebKnowledgeResponse resolved (line 434).
WebAnswered(f, text, sources) ==
  /\ ~Resuming
  /\ flows[f].kind = "send" /\ flows[f].pc = "web"
  /\ Commit(answered([World EXCEPT !.returned =
                        Some([by |-> "web", text |-> text, sources |-> sources])],
                     f, text, Some(sources)))

\* getConversationalResponse resolved (line 439).
Conversed(f, text, functionCalls) ==
  /\ ~Resuming
  /\ flows[f].kind = "send" /\ flows[f].pc = "conv"
  /\ ChangesCharacter(functionCalls) => HasFreeSlot
  /\ Commit(applyCalls([World EXCEPT !.flows[f].reply = text,
                                     !.flows[f].calls = functionCalls], f))

\* The dispatch continues after "await handleCharacterChange" (line 451).
Resumed(f) ==
  /\ flows[f].kind = "send" /\ flows[f].pc = "resume"
  /\ ChangesCharacter(flows[f].calls) => HasFreeSlot
  /\ Commit(applyCalls(World, f))

\* The capability awaited by the dispatch rejected.
CapabilityFailed(f) ==
  /\ ~Resuming
  /\ flows[f].kind = "send"
  /\ flows[f].pc \in {"optimize", "image", "summarize", "web", "conv"}
  /\ Commit(sendCatch(World, f))

(* --------------------------- other workflows --------------------------- *)

\* A handler that sets isLoading and awaits one capability: its first lines.
loadingStart(w, slot, kind, pc, snap, op) ==
  [w EXCEPT
     !.ks = [@ EXCEPT !.isLoading = TRUE, !.status = "thinking"],
     !.flows[slot] = [NoFlow EXCEPT !.kind = kind, !.pc = pc, !.op = op, !.snap = snap]]

\* addMessage(Role.MODEL, text); speak(text, mood), as every handler's try
\* block ends.
say(w, f, text, mood) ==
  speak(addMessage(w, "model", text, Nil, Nil), text, mood, w.flows[f].snap, 0)

\* handleAnalyzeScreen (lines 498-523); the Analyze Screen button is never
\* disabled (part_002 line 619).
AnalyzeScreenClick ==
  /\ CanStart /\ HasFreeSlot
  /\ kiboState.isKiboActive
  /\ LET snap == Snap(kiboState)
         w == OpStart(World, "screen")
     IN Commit(loadingStart(triggerReaction(resetIdleTimer(w, snap), "HEAD_TILT", snap),
                            FreeSlot, "screen", "capture", snap, Len(w.hist)))

\* captureScreenAsBase64 resolved (line 504).
ScreenCaptured(f) ==
  /\ ~Resuming
  /\ flows[f].kind = "screen" /\ flows[f].pc = "capture"
  /\ Commit([World EXCEPT !.flows[f].pc = "call"])

\* The catch of handleAnalyzeScreen (lines 513-519).
screenCatch(w, f) ==
  triggerReaction(
    setNotification(say(w, f, "could not analyze", "SAD"), "error", "screen failed", 0),
    "SURPRISED", w.flows[f].snap)

\* handleLanguageChange (lines 541-559); the language menu is never disabled
\* (part_002 lines 289-293).
Languages == {"en-US", "ja-JP"}

LanguageClick(lang) ==
  /\ CanStart /\ HasFreeSlot
  /\ kiboState.isKiboActive
  /\ LET w == OpStart(World, "lang")
         w1 == [w EXCEPT !.ks = [@ EXCEPT !.language = lang,
                                          !.userPreferredLanguage = lang]]
     IN Commit(loadingStart(w1, FreeSlot, "lang", "call", Snap(kiboState), Len(w.hist)))

\* handleGenerateLearningReport (lines 573-587; part_002 lines 183-186, 493).
LearningReportClick ==
  /\ CanStart /\ HasFreeSlot
  /\ kiboState.isKiboActive /\ ~kiboState.isLoading
  /\ LET w == OpStart(World, "report")
     IN Commit(loadingStart(w, FreeSlot, "report", "call", Snap(kiboState), Len(w.hist)))

\* handleSuggestImprovement (lines 589-603).
SuggestImprovement ==
  /\ CanStart /\ HasFreeSlot
  /\ kiboState.isKiboActive
  /\ LET w == OpStart(World, "improve")
     IN Commit(loadingStart(w, FreeSlot, "improve", "call", Snap(kiboState), Len(w.hist)))

\* handleSummarizeChat (lines 644-660; part_002 line 520).
SummarizeChatClick ==
  /\ CanStart /\ HasFreeSlot
  /\ kiboState.isKiboActive /\ ~kiboState.isLoading
  /\ IF Len(kiboState.messages) < 3
     THEN Commit(setNotification(World, "info", "not enough conversation", 0))
     ELSE LET w == OpStart(World, "summary")
          IN Commit(loadingStart(w, FreeSlot, "summary", "call", Snap(kiboState),
                                 Len(w.hist)))

\* The reminders of rs that satisfy keep, in order.
RECURSIVE filter(_, _)
filter(rs, completed) ==
  IF rs = <<>> THEN <<>>
  ELSE (IF Head(rs).completed = completed THEN <<Head(rs)>> ELSE <<>>)
       \o filter(Tail(rs), completed)

\* new Map(reminders.map(r => [r.id, r])).get(id) (lines 623-624): the last
\* reminder with that id, or nothing.
RECURSIVE lookup(_, _)
lookup(rs, id) ==
  IF rs = <<>> THEN <<>>
  ELSE IF rs[Len(rs)].id = id THEN <<rs[Len(rs)]>>
       ELSE lookup(SubSeq(rs, 1, Len(rs) - 1), id)

\* orderedIds.map(id => reminderMap.get(id)).filter(Boolean) (line 624)
RECURSIVE orderedReminders(_, _)
orderedReminders(rs, orderedIds) ==
  IF orderedIds = <<>> THEN <<>>
  ELSE lookup(rs, Head(orderedIds)) \o orderedReminders(rs, Tail(orderedIds))

\* handlePrioritizeTasks (lines 614-620; part_002 line 519).
PrioritizeClick ==
  /\ CanStart /\ HasFreeSlot
  /\ kiboState.isKiboActive /\ ~kiboState.isLoading
  /\ IF Len(filter(kiboState.reminders, FALSE)) < 2
     THEN Commit(setNotification(World, "info", "not enough tasks", 0))
     ELSE LET w == OpStart(World, "prioritize")
              w1 == loadingStart(w, FreeSlot, "prioritize", "call", Snap(kiboState),
                                 Len(w.hist))
          IN Commit([w1 EXCEPT !.flows[FreeSlot].reminders = kiboState.reminders])

\* prioritizeTasks resolved (lines 622-634).
prioritized(w, f, orderedIds) ==
  LET rs == w.flows[f].reminders
      w1 == [w EXCEPT
               !.ks = [@ EXCEPT !.reminders =
                         orderedReminders(rs, orderedIds) \o filter(rs, TRUE)],
               !.remTouched = TRUE]
  IN say(w1, f, "reprioritized", "NEUTRAL")

\* What the capability awaited by workflow f did on resolving with text.
resolved(w, f, text) ==
  LET kind == w.flows[f].kind
  IN CASE kind = "screen" -> say(w, f, text, "NEUTRAL")
       [] kind = "lang" -> say(w, f, text, "HAPPY")
       [] kind = "report" -> say(w, f, text, "NEUTRAL")
       [] kind = "improve" -> say(w, f, text, "NEUTRAL")
       [] kind = "summary" ->
            speak(addMessage(w, "model", "summary", Nil, Nil),
                  "here is a summary", "NEUTRAL", w.flows[f].snap, 0)

\* The catch of workflow f.
rejected(w, f) ==
  LET kind == w.flows[f].kind
  IN CASE kind = "screen" -> screenCatch(w, f)
       [] kind = "lang" -> say(w, f, "language set", "NEUTRAL")
       [] kind = "report" -> say(w, f, "trouble compiling", "SAD")
       [] kind = "improve" -> say(w, f, "a bit stuck", "SAD")
       [] kind = "prioritize" -> setNotification(w, "error", "could not prioritize", 0)
       [] kind = "summary" -> setNotification(w, "error", "could not summarize", 0)

SimpleKinds == {"screen", "lang", "report", "improve", "summary"}

\* The awaited capability of a loading workflow resolved.
Resolved(f, text) ==
  /\ ~Resuming
  /\ flows[f].kind \in SimpleKinds /\ flows[f].pc = "call"
  /\ Commit(finish(resolved(World, f, text), f, "done"))

Prioritized(f, orderedIds) ==
  /\ ~Resuming
  /\ flows[f].kind = "prioritize" /\ flows[f].pc = "call"
  /\ Commit(finish(prioritized(World, f, orderedIds), f, "done"))

\* The awaited capability (or the screen capture) of a loading workflow
\* rejected.
Rejected(f) ==
  /\ ~Resuming
  /\ flows[f].kind \in SimpleKinds \cup {"prioritize"}
  /\ flows[f].pc \in {"capture", "call"}
  /\ Commit(finish(rejected(World, f), f, "threw"))

\* handleToggleReminderComplete(id) (lines 605-612).
handleToggleReminderComplete(w, id) ==
  LET rs == w.ks.reminders
      toggled(r) == [r EXCEPT !.completed = ~r.completed,
                              !.completedAt = IF ~r.completed THEN Some(now) ELSE Nil]
  IN [w EXCEPT
        !.ks = [@ EXCEPT !.reminders =
                  [k \in DOMAIN rs |-> IF rs[k].id = id THEN toggled(rs[k]) ELSE rs[k]]],
        !.remTouched = TRUE]

\* A click on a reminder's check mark (part_002 line 446).
ToggleReminderClick(id) ==
  /\ CanStart
  /\ kiboState.isKiboActive
  /\ \E k \in DOMAIN kiboState.reminders : kiboState.reminders[k].id = id
  /\ Commit(handleToggleReminderComplete(OpStart(World, "toggleReminder"), id))

(* ---------------------------- proactive mode --------------------------- *)

\* handleToggleProactiveMode (lines 569-571); the switch of the settings tab
\* is never disabled (part_002 line 345).
handleToggleProactiveMode(w) ==
  [w EXCEPT !.ks = [@ EXCEPT !.isProactiveMode = ~@]]

ToggleProactiveMode ==
  /\ CanStart
  /\ Commit(handleToggleProactiveMode(OpStart(World, "proactive")))

\* handleProactiveCheck up to its first await (lines 227-232): the check is
\* skipped when the render that armed the interval had isLoading set or a
\* status other than Idle; the interval is re-armed whenever either changes,
\* so that render's values are the current ones.
proactiveCheckStart(w, slot) ==
  IF w.ks.isLoading \/ w.ks.status # "idle" THEN w
  ELSE [w EXCEPT !.flows[slot] =
          [NoFlow EXCEPT !.kind = "proactive", !.pc = "capture",
                         !.snap = Snap(w.ks)]]

\* One tick of the proactive interval (line 250).
ProactivePollTick ==
  /\ ~Resuming
  /\ proactivePoll # Nil
  /\ now >= Val(proactivePoll)
  /\ HasFreeSlot
  /\ proactivePoll' = Some(Val(proactivePoll) + ProactivePollMs)
  /\ flows' = proactiveCheckStart(World, FreeSlot).flows
  /\ log' = [notifs |-> <<>>, said |-> <<>>, applied |-> <<>>, returned |-> Nil,
             polled |-> FALSE]
  /\ UNCHANGED <<kiboState, notification, chatInput, now, focusTimer, idleTimer,
                 reminderPoll, reactionTimers, speaks, nextId, storage, mounted,
                 hist>>

\* The end of a proactive check.
proactiveEnd(w, f, ok) ==
  [w EXCEPT !.flows[f] = NoFlow,
            !.returned = Some([by |-> "proactive", ok |-> ok])]

\* captureScreenAsBase64 and then getProactiveSuggestion resolved (lines
\* 232-239), with "" for no suggestion; nothing is written between the two
\* awaits, so they are one step.
proactiveSuggested(w, f, suggestion) ==
  proactiveEnd(IF suggestion # "" THEN say(w, f, suggestion, "NEUTRAL") ELSE w,
               f, TRUE)

ProactiveSuggested(f, suggestion) ==
  /\ ~Resuming
  /\ flows[f].kind = "proactive" /\ flows[f].pc = "capture"
  /\ Commit(proactiveSuggested(World, f, suggestion))

\* A catch that reports the failure and leaves proactive mode on.
proactiveCatchStaysOn(w, f) ==
  proactiveEnd(setNotification(w, "info", "proactive disabled", 0), f, FALSE)

\* Either of the two rejected: the catch of lines 240-246.
proactiveCatch(w, f) ==
  proactiveEnd(
    setNotification([w EXCEPT !.ks = [@ EXCEPT !.isProactiveMode = FALSE]],
                    "info", "proactive disabled", 0),
    f, FALSE)

ProactiveFailed(f) ==
  /\ ~Resuming
  /\ flows[f].kind = "proactive" /\ flows[f].pc = "capture"
  /\ Commit(proactiveCatch(World, f))

(* ------------------------------ clipboard ------------------------------ *)

\* handleAnalyzeClipboard up to its await (lines 525-527); the button is
\* never disabled (part_002 line 615).
ClipboardClick ==
  /\ CanStart /\ HasFreeSlot
  /\ LET w == OpStart(World, "clipboard")
     IN Commit([w EXCEPT !.flows[FreeSlot] =
                  [NoFlow EXCEPT !.kind = "clipboard", !.pc = "read",
                                 !.op = Len(w.hist), !.snap = Snap(kiboState)]])

\* navigator.clipboard.readText() resolved (lines 528-535): a text that is
\* not blank is dispatched by the handleSendMessage of the click's render.
clipboardRead(w, f, clipboardText) ==
  IF IsBlank(clipboardText)
  THEN [setNotification(w, "info", "clipboard empty", 0) EXCEPT !.flows[f] = NoFlow]
  ELSE LET prompt == <<"Analyze">> \o clipboardText
           w1 == OpStart([w EXCEPT !.chatInput = prompt], "send")
       IN sendStart(w1, f, messageText(prompt, w.chatInput), "none",
                    w.flows[f].snap, Len(w1.hist))

ClipboardRead(f, clipboardText) ==
  /\ CanStart
  /\ flows[f].kind = "clipboard" /\ flows[f].pc = "read"
  /\ Commit(clipboardRead(World, f, clipboardText))

\* A catch that also apologizes in the transcript.
clipboardCatchApologizes(w, f) ==
  [setNotification(addMessage(w, "model", "could not read", Nil, Nil),
                   "error", "clipboard failed", 0)
     EXCEPT !.flows[f] = NoFlow,
            !.returned = Some([by |-> "clipboard", ok |-> FALSE])]

\* readText rejected: the catch of lines 536-539.
clipboardCatch(w, f) ==
  [setNotification(w, "error", "clipboard failed", 0)
     EXCEPT !.flows[f] = NoFlow,
            !.returned = Some([by |-> "clipboard", ok |-> FALSE])]

ClipboardDenied(f) ==
  /\ ~Resuming
  /\ flows[f].kind = "clipboard" /\ flows[f].pc = "read"
  /\ Commit(clipboardCatch(World, f))

(* ------------------------------ settings ------------------------------- *)

\* handleVoiceChange (lines 561-563; part_002 line 313).
handleVoiceChange(w, voice) == [w EXCEPT !.ks = [@ EXCEPT !.voice = voice]]

VoiceClick(voice) ==
  /\ CanStart
  /\ Commit(handleVoiceChange(OpStart(World, "voice"), voice))

\* handleAnimationChange (lines 565-567; part_002 line 321).
handleAnimationChange(w, pack) ==
  [w EXCEPT !.ks = [@ EXCEPT !.animationPack = pack]]

AnimationClick(pack) ==
  /\ CanStart
  /\ Commit(handleAnimationChange(OpStart(World, "animation"), pack))

\* handleToggleFloatingMode (lines 674-676; part_002 line 335).
handleToggleFloatingMode(w) ==
  [w EXCEPT !.ks = [@ EXCEPT !.isFloatingMode = ~@]]

ToggleFloatingMode ==
  /\ CanStart
  /\ Commit(handleToggleFloatingMode(OpStart(World, "floating")))

(* ------------------------------- restart ------------------------------- *)

\* The page is loaded again: what was in flight and every timer is gone, and
\* the hook is constructed from what storage holds.  When the initializer
\* throws, the hook is not mounted and holds no state: kiboState keeps its
\* value and means nothing until the next load that succeeds.
Reload ==
  /\ CanStart
  /\ LET r == initializer(storage)
         w == welcomeEffect(listeningEffect(Mount(r.ks)))
     IN /\ mounted' = ~r.threw
        /\ kiboState' = IF r.threw THEN kiboState ELSE w.ks
        /\ speaks' = IF r.threw THEN <<>> ELSE w.speaks
        /\ storage' = IF r.threw THEN storage ELSE persist(w.ks, storage)
        /\ idleTimer' = IF ~r.threw /\ w.ks.isKiboActive
                        THEN Some([due |-> now + IdleMs, snap |-> Snap(w.ks)])
                        ELSE Nil
        /\ reminderPoll' =
             IF ~r.threw /\ w.ks.isKiboActive THEN Some(now + ReminderPollMs) ELSE Nil
        /\ proactivePoll' =
             IF ~r.threw /\ w.ks.isKiboActive /\ w.ks.isProactiveMode
             THEN Some(now + ProactivePollMs) ELSE Nil
        /\ log' = [notifs |-> <<>>, said |-> IF r.threw THEN <<>> ELSE w.said,
                   applied |-> <<>>,
                   returned |-> Some([by |-> "startup", ok |-> ~r.threw,
                                      stored |-> storage]),
                   polled |-> FALSE]
  /\ notification' = Nil
  /\ chatInput' = <<>>
  /\ focusTimer' = Nil
  /\ reactionTimers' = 0
  /\ flows' = [f \in FlowIds |-> NoFlow]
  /\ hist' = OpStart(World, "reload").hist
  /\ UNCHANGED <<now, nextId>>

AnimationPacks == {"DEFAULT", "SUBTLE"}

\* What storage may hold for a key when the page is loaded: nothing, a text
\* that is no value of the field, or a value an earlier session stored.
StoredChoices(key) ==
  CASE key = "kibo-voice" -> {Nil, Some(Raw("")), Some(Raw("garbage")), Some(Raw("Kore"))}
    [] key = "kibo-animationPack" -> {Nil, Some(Raw("garbage")), Some(Raw("SUBTLE"))}
    [] key = "kibo-avatarStyle" -> {Nil, Some(Raw("garbage")), Some(Raw("MUZAN"))}
    [] key = "kibo-reminders" ->
         {Nil, Some(Raw("{oops")),
          Some(stringify(JsonArray(<<NewReminder(1, "call mom", 10000)>>, JsonReminder)))}
    [] key = "kibo-learnedFacts" ->
         {Nil, Some(Raw("{oops")),
          Some(stringify(JsonArray(<<[id |-> 1, fact |-> "likes tea"]>>, JsonFact)))}
    [] key = "kibo-moodHistory" ->
         {Nil, Some(Raw("{oops")),
          Some(stringify(JsonArray(<<[mood |-> "HAPPY", timestamp |-> 0]>>, JsonMoodEntry)))}
    [] OTHER ->
         {Nil, Some(Raw("{oops")), Some(stringify(JsonBool(TRUE))),
          Some(stringify(JsonBool(FALSE)))}

\* Storage is changed from outside the session (another version of the
\* program, the browser's tools) while at most MaxEdits keys differ from
\* what the session stored.
StorageEdit(key, stored) ==
  /\ ~Resuming
  /\ LET own == persist(kiboState, storage)
     IN /\ Cardinality({k \in StorageKeys : storage[k] # own[k]}) < MaxEdits
        /\ storage[key] = own[key]
  /\ stored # storage[key]
  /\ storage' = [storage EXCEPT ![key] = stored]
  /\ log' = [notifs |-> <<>>, said |-> <<>>, applied |-> <<>>, returned |-> Nil,
             polled |-> FALSE]
  /\ UNCHANGED <<kiboState, notification, chatInput, now, focusTimer, idleTimer,
                 reminderPoll, proactivePoll, reactionTimers, flows, speaks,
                 nextId, mounted, hist>>

(* --------------------------- specifications ---------------------------- *)

Replies == {"", "reply"}

SpeakSettles ==
  \/ \E i \in DOMAIN speaks : SpeakPlayed(i)
  \/ \E i \in DOMAIN speaks : SpeakFailed(i)

\* The dispatch pipeline with the transform it may call, the power switch
\* and one workflow that can overlap it; the clock stands still.
DispatchTexts == { <<"hello">>, <<"What", "is", "entropy">> }
DispatchFiles == {"none", "image"}
DispatchCalls ==
  { <<>>,
    <<Call("changeCharacter", "MUZAN", 0), Call("extractFact", "likes tea", 0)>>,
    <<Call("changeCharacter", "a wise old dragon", 0)>> }

NextDispatch ==
  \/ SpeakSettles
  \/ ToggleKiboActive
  \/ \E t \in DispatchTexts, file \in DispatchFiles : SendClick(t, file)
  \/ \E f \in FlowIds : FileRead(f)
  \/ \E f \in FlowIds : FileFailed(f)
  \/ \E f \in FlowIds : MoodDetected(f, "SAD")
  \/ \E f \in FlowIds : Described(f, "reply")
  \/ \E f \in FlowIds : WebAnswered(f, "reply", <<>>)
  \/ \E f \in FlowIds, r \in Replies, calls \in DispatchCalls : Conversed(f, r, calls)
  \/ \E f \in FlowIds : Resumed(f)
  \/ \E f \in FlowIds : CapabilityFailed(f)
  \/ \E f \in FlowIds : CharacterGenerated(f, "Kore")
  \/ \E f \in FlowIds : CharacterConfirmed(f, "reply")
  \/ \E f \in FlowIds : CharacterFailed(f)
  \/ AnalyzeScreenClick
  \/ \E f \in FlowIds : ScreenCaptured(f)
  \/ \E f \in FlowIds : Resolved(f, "reply")
  \/ \E f \in FlowIds : Rejected(f)

InitDispatch == InitFrom({<<>>}, {TRUE})
SpecDispatch == InitDispatch /\ [][NextDispatch]_vars

\* The focus session with the power switch and the clock.
NextFocus ==
  \/ Tick
  \/ FocusExpire
  \/ ReminderPollTick
  \/ SpeakSettles
  \/ ToggleKiboActive
  \/ \E t \in FocusTasks, m \in DurationChoices : StartFocusClick(t, m)

InitFocus == InitFrom({<<>>}, BOOLEAN)
SpecFocus == InitFocus /\ [][NextFocus]_vars

\* A dispatch whose response may start a focus session, with the power
\* switch (no clock: the countdown it arms stays pending).
FocusCalls ==
  { <<>>, <<Call("startFocusSession", "write the report", 1)>> }

NextLateSession ==
  \/ ReactionTimeout
  \/ SpeakSettles
  \/ ToggleKiboActive
  \/ SendClick(<<"hello">>, "none")
  \/ \E f \in FlowIds : MoodDetected(f, "BUSY")
  \/ \E f \in FlowIds, calls \in FocusCalls : Conversed(f, "reply", calls)
  \/ \E f \in FlowIds : CapabilityFailed(f)

SpecLateSession == InitDispatch /\ [][NextLateSession]_vars

\* Focus sessions started over one another by the directives of dispatches,
\* with the clock.
RestartCalls ==
  { <<Call("startFocusSession", "read the book", 1)>>,
    <<Call("startFocusSession", "write the report", 1),
      Call("startFocusSession", "read the book", 1)>> }

NextFocusRestart ==
  \/ Tick
  \/ ReactionTimeout
  \/ FocusExpire
  \/ ReminderPollTick
  \/ \E i \in DOMAIN speaks : SpeakPlayed(i)
  \/ SendClick(<<"hello">>, "none")
  \/ \E f \in FlowIds : MoodDetected(f, "BUSY")
  \/ \E f \in FlowIds, calls \in RestartCalls : Conversed(f, "", calls)

SpecFocusRestart == InitDispatch /\ [][NextFocusRestart]_vars

\* Proactive mode: its switch, its interval and its checks, with a dispatch
\* and the speech that change status and isLoading meanwhile, and the clock.
Suggestions == {"", "need a hand?"}

NextProactive ==
  \/ TickUntil(MaxProactivePeriods)
  \/ ReactionTimeout
  \/ ReminderPollTick
  \/ ProactivePollTick
  \/ \E i \in DOMAIN speaks : SpeakPlayed(i)
  \/ ToggleProactiveMode
  \/ \E f \in FlowIds, suggestion \in Suggestions : ProactiveSuggested(f, suggestion)
  \/ \E f \in FlowIds : ProactiveFailed(f)
  \/ SendClick(<<"hello">>, "none")
  \/ \E f \in FlowIds : MoodDetected(f, "NEUTRAL")
  \/ \E f \in FlowIds : Conversed(f, "reply", <<>>)

SpecProactive == InitDispatch /\ [][NextProactive]_vars

\* The operations that use a device: the screen, by the Analyze Screen
\* button and by the proactive interval, and the clipboard.
ClipboardTexts == { <<" ">>, <<"some", "notes">> }

NextDevices ==
  \/ TickUntil(MaxProactivePeriods)
  \/ ReactionTimeout
  \/ ReminderPollTick
  \/ ProactivePollTick
  \/ \E i \in DOMAIN speaks : SpeakPlayed(i)
  \/ ToggleProactiveMode
  \/ \E f \in FlowIds : ProactiveSuggested(f, "need a hand?")
  \/ \E f \in FlowIds : ProactiveFailed(f)
  \/ AnalyzeScreenClick
  \/ \E f \in FlowIds : ScreenCaptured(f)
  \/ \E f \in FlowIds : Resolved(f, "a screen")
  \/ \E f \in FlowIds : Rejected(f)
  \/ ClipboardClick
  \/ \E f \in FlowIds, text \in ClipboardTexts : ClipboardRead(f, text)
  \/ \E f \in FlowIds : ClipboardDenied(f)
  \/ \E f \in FlowIds : MoodDetected(f, "NEUTRAL")
  \/ \E f \in FlowIds : Conversed(f, "reply", <<>>)

SpecDevices == InitDispatch /\ [][NextDevices]_vars

\* The nine persisted fields changed by the operations that change them,
\* and the page loaded again.
PersistCalls ==
  { <<Call("extractFact", "likes tea", 0), Call("setReminder", "buy milk", 10)>>,
    <<Call("extractFact", "", 0), Call("extractFact", "likes tea", 0)>> }

NextPersist ==
  \/ ReactionTimeout
  \/ \E i \in DOMAIN speaks : SpeakPlayed(i)
  \/ ToggleKiboActive
  \/ ToggleProactiveMode
  \/ ToggleFloatingMode
  \/ AnimationClick("SUBTLE")
  \/ VoiceClick("Kore")
  \/ ToggleReminderClick(1)
  \/ CharacterClick("MUZAN")
  \/ \E f \in FlowIds : CharacterConfirmed(f, "done")
  \/ SendClick(<<"hello">>, "none")
  \/ \E f \in FlowIds : MoodDetected(f, "HAPPY")
  \/ \E f \in FlowIds, calls \in PersistCalls : Conversed(f, "reply", calls)
  \/ Reload

InitPersist == InitFrom(SavedReminderLists, {TRUE})
SpecPersist == InitPersist /\ [][NextPersist]_vars

\* Startup from what storage holds.
NextStartup ==
  \/ \E key \in StorageKeys : \E stored \in StoredChoices(key) : StorageEdit(key, stored)
  \/ Reload

SpecStartup == InitDispatch /\ [][NextStartup]_vars

\* The reminders: directives that set them, the poll, the check marks and
\* the prioritization, with the clock.
ReminderCalls ==
  { <<Call("setReminder", "buy milk", 10)>>,
    <<Call("setReminder", "buy milk", 0)>> }
IdLists == { <<2, 1>>, <<1>>, <<1, 1, 2>> }
ReminderIds == 1..3

NextReminders ==
  \/ TickUntil(MaxPollPeriods)
  \/ ReactionTimeout
  \/ ReminderPollTick
  \/ SpeakSettles
  \/ SendClick(<<"remind", "me">>, "none")
  \/ \E f \in FlowIds : MoodDetected(f, "NEUTRAL")
  \/ \E f \in FlowIds, calls \in ReminderCalls : Conversed(f, "", calls)
  \/ \E id \in ReminderIds : ToggleReminderClick(id)
  \/ PrioritizeClick
  \/ \E f \in FlowIds, ids \in IdLists : Prioritized(f, ids)
  \/ \E f \in FlowIds : Rejected(f)

InitReminders == InitFrom(SavedReminderLists \ {<<>>}, {TRUE})
SpecReminders == InitReminders /\ [][NextReminders]_vars

\* The character transform, from the avatar tab and from a directive.
CharacterNames == {"MUZAN", "Kibo", "Kiko (Anime Girl)", "a wise old dragon"}
InferredVoices == {"Kore", "Charon"}
VoiceAnswers == InferredVoices \cup {"none"}
CharacterCalls ==
  { <<>>, <<Call("changeCharacter", "Gojo", 0)>>,
    <<Call("changeCharacter", "a wise old dragon", 0)>> }

NextCharacter ==
  \/ SpeakSettles
  \/ \E name \in CharacterNames : CharacterClick(name)
  \/ \E f \in FlowIds, answer \in VoiceAnswers : CharacterGenerated(f, answer)
  \/ \E f \in FlowIds : CharacterConfirmed(f, "reply")
  \/ \E f \in FlowIds : CharacterFailed(f)
  \/ SendClick(<<"hello">>, "none")
  \/ \E f \in FlowIds : MoodDetected(f, "NEUTRAL")
  \/ \E f \in FlowIds, calls \in CharacterCalls : Conversed(f, "reply", calls)
  \/ \E f \in FlowIds : Resumed(f)

SpecCharacter == InitDispatch /\ [][NextCharacter]_vars

\* Transforms with the language menu, which stays enabled while a transform
\* is in flight (part_002 lines 281-294).
PersonaNames == {"Kibo", "Muzan", "a wise old dragon"}

NextLanguage ==
  \/ SpeakSettles
  \/ \E name \in PersonaNames : CharacterClick(name)
  \/ \E lang \in Languages : LanguageClick(lang)
  \/ \E f \in FlowIds : CharacterGenerated(f, "Kore")
  \/ \E f \in FlowIds : CharacterConfirmed(f, "reply")
  \/ \E f \in FlowIds : CharacterFailed(f)
  \/ \E f \in FlowIds : Resolved(f, "reply")
  \/ \E f \in FlowIds : Rejected(f)

SpecLanguage == InitDispatch /\ [][NextLanguage]_vars

\* The idle timer over its period, with a workflow that appends a message,
\* the microphone and speech that may last.
NextIdle ==
  \/ TickUntil(MaxIdlePeriods)
  \/ ReminderPollTick
  \/ \E i \in DOMAIN speaks : SpeakPlayed(i)
  \/ IdleFire
  \/ \E f \in FlowIds : IdleAnswered(f, "fun fact")
  \/ \E f \in FlowIds : IdleFailed(f)
  \/ MicClick
  \/ \E f \in FlowIds : SpeechRecognized(f, <<" ">>)
  \/ LearningReportClick
  \/ \E f \in FlowIds : Resolved(f, "reply")
  \/ ToggleKiboActive

SpecIdle == InitDispatch /\ [][NextIdle]_vars

\* Transforms to a preset and to a generated persona, and the page loaded
\* again.
AvatarNames == {"MUZAN", "a wise old dragon"}

NextAvatar ==
  \/ SpeakSettles
  \/ \E name \in AvatarNames : CharacterClick(name)
  \/ \E f \in FlowIds : CharacterGenerated(f, "Kore")
  \/ \E f \in FlowIds : CharacterConfirmed(f, "reply")
  \/ \E f \in FlowIds : CharacterFailed(f)
  \/ Reload

SpecAvatar == InitDispatch /\ [][NextAvatar]_vars

\* The preset buttons' names (part_002 lines 79-83) as they stand, in other
\* letter cases and without the qualifier, typed into the Transform field.
PresetSpellings ==
  {"Kibo", "KIBO", "kibo", "Kiko (Anime Girl)", "kiko (anime girl)", "Kiko",
   "kiko", "Muzan", "MUZAN", "muzan", "Gojo", "gojo"}

NextPreset ==
  \/ SpeakSettles
  \/ \E name \in PresetSpellings : CharacterClick(name)
  \/ \E f \in FlowIds : CharacterGenerated(f, "Kore")
  \/ \E f \in FlowIds : CharacterConfirmed(f, "reply")
  \/ \E f \in FlowIds : CharacterFailed(f)

SpecPreset == InitDispatch /\ [][NextPreset]_vars

\* The routing of a dispatch by its text and its attachment.
RouteTexts ==
  { <<"hello">>, <<"What", "is", "entropy">>, <<"what", "isotope">>,
    <<"https://a", "please">>, <<"please", "summarize", "https://a">> }
RouteFiles == {"none", "image", "text"}
SourceLists == { <<>>, <<[uri |-> "u1", title |-> "t1"]>> }

NextRoute ==
  \/ SpeakSettles
  \/ \E t \in RouteTexts, file \in RouteFiles : SendClick(t, file)
  \/ OptimizeClick("be funnier")
  \/ \E f \in FlowIds : FileRead(f)
  \/ \E f \in FlowIds : MoodDetected(f, "NEUTRAL")
  \/ \E f \in FlowIds : Optimized(f)
  \/ \E f \in FlowIds : Described(f, "reply")
  \/ \E f \in FlowIds, sources \in SourceLists : WebAnswered(f, "reply", sources)
  \/ \E f \in FlowIds : Conversed(f, "reply", <<>>)
  \/ \E f \in FlowIds : CapabilityFailed(f)

SpecRoute == InitDispatch /\ [][NextRoute]_vars

\* Intent classification over every kind of attachment: an image, a text
\* file with and without content, a file of another kind, and none; with
\* and without user text.
IntentTexts == { <<>>, <<"hello">>, <<"What", "is", "entropy">> }
IntentFiles == {"none", "image", "text", "emptytext", "pdf"}

NextIntent ==
  \/ SpeakSettles
  \/ \E t \in IntentTexts, file \in IntentFiles : SendClick(t, file)
  \/ OptimizeClick("be funnier")
  \/ \E f \in FlowIds : FileRead(f)
  \/ \E f \in FlowIds : MoodDetected(f, "NEUTRAL")
  \/ \E f \in FlowIds : Optimized(f)
  \/ \E f \in FlowIds, r \in Replies : Described(f, r)
  \/ \E f \in FlowIds, r \in Replies : WebAnswered(f, r, <<>>)
  \/ \E f \in FlowIds, r \in Replies : Conversed(f, r, <<>>)
  \/ \E f \in FlowIds : FileFailed(f)
  \/ \E f \in FlowIds : CapabilityFailed(f)

SpecIntent == InitDispatch /\ [][NextIntent]_vars

\* Typed and spoken messages, which may overlap, and their mood detection.
DetectedMoods == {"SAD", "HAPPY"}

NextMood ==
  \/ SpeakSettles
  \/ SendClick(<<"hello">>, "none")
  \/ MicClick
  \/ \E f \in FlowIds : SpeechRecognized(f, <<"good", "morning">>)
  \/ \E f \in FlowIds, m \in DetectedMoods : MoodDetected(f, m)
  \/ \E f \in FlowIds : Conversed(f, "reply", <<>>)
  \/ \E f \in FlowIds : CapabilityFailed(f)

SpecMood == InitDispatch /\ [][NextMood]_vars

\* Dictation: the input field is edited, the microphone is started and the
\* recognizer delivers a transcript, which may be empty or blank; the clock
\* runs.
VoiceTexts == { <<>>, <<" ">>, <<"hello">> }

NextVoice ==
  \/ Tick
  \/ ReactionTimeout
  \/ SpeakSettles
  \/ \E t \in VoiceTexts : Type(t)
  \/ MicClick
  \/ \E f \in FlowIds, t \in VoiceTexts : SpeechRecognized(f, t)
  \/ \E f \in FlowIds : MoodDetected(f, "NEUTRAL")
  \/ \E f \in FlowIds : Conversed(f, "reply", <<>>)

SpecVoice == InitDispatch /\ [][NextVoice]_vars

(* ------------------------------- claims -------------------------------- *)

\* C1: in every reachable state isFocusModeActive is true if and only if
\* focusSessionEndTime is non-null.
FocusFlagIffEndTime ==
  kiboState.isFocusModeActive <=> (kiboState.focusSessionEndTime # Nil)

\* C2: every workflow that set isLoading reaches isLoading = false and
\* status = Idle once all of its awaited steps have settled: when nothing
\* is in flight any more (no workflow, no speech), nothing is loading and
\* the status is Idle.
Quiescent == (\A f \in FlowIds : Free(f)) /\ speaks = <<>>
SettledMeansReset ==
  Quiescent => ~kiboState.isLoading /\ kiboState.status = "idle"

Threw(h, op) ==
  op \in DOMAIN h /\ h[op].kind = "send" /\ h[op].outcome = "threw"
SpeechPending(op) == \E i \in DOMAIN speaks : speaks[i].owner = op
ApologyFailed(op) ==
  \E i \in DOMAIN speaks :
    /\ speaks[i].owner = op
    /\ speaks' = Remove(speaks, i)
    /\ log'.notifs = <<[type |-> "error", message |-> "unable to speak"]>>

\* C3: a dispatch whose capability call threw has, once everything it
\* started (the apology speech included) is complete, exactly one error
\* notification.
OneErrorPerFailedDispatch ==
  \A op \in DOMAIN hist :
    Threw(hist, op) /\ ~SpeechPending(op) => hist[op].errs = 1

\* C3, as the code has it: the step in which the capability call throws ends
\* the dispatch with isLoading = false and status = Idle and emits exactly
\* one error notification for it; afterwards one more error notification is
\* emitted for that dispatch exactly when synthesis or playback of its
\* apology speech fails, and never a third.
FailedDispatchErrors ==
  [][ \A op \in DOMAIN hist' :
        Threw(hist', op) =>
          IF ~Threw(hist, op)
          THEN /\ hist'[op].errs = 1
               /\ ~kiboState'.isLoading
               /\ kiboState'.status = "idle"
          ELSE \/ hist'[op].errs = hist[op].errs /\ ~ApologyFailed(op)
               \/ /\ hist[op].errs = 1 /\ hist'[op].errs = 2
                  /\ ApologyFailed(op) ]_vars

\* A failed dispatch whose apology speech failed too.
FailedDispatchTwoErrors ==
  \E op \in DOMAIN hist :
    Threw(hist, op) /\ ~SpeechPending(op) /\ hist[op].errs = 2

\* C4: isLoading is true in every state where a dispatch is in flight
\* (between its first update and its final reset), and false in every state
\* where no loading workflow is in flight.
LoadingIffInFlight ==
  /\ InFlight("send") # {} => kiboState.isLoading
  /\ (\A f \in FlowIds : Free(f)) => ~kiboState.isLoading

\* C5: a step that deactivates the assistant while a focus session is
\* active leaves isFocusModeActive false, focusSessionEndTime and
\* focusSessionTask null, and no focus countdown pending (so no completion
\* notification or speech can follow for that session).
DeactivationClearsFocus ==
  [][ (kiboState.isKiboActive /\ ~kiboState'.isKiboActive
         /\ kiboState.isFocusModeActive)
      => /\ ~kiboState'.isFocusModeActive
         /\ kiboState'.focusSessionEndTime = Nil
         /\ kiboState'.focusSessionTask = Nil
         /\ focusTimer' = Nil ]_vars

\* C6: in every state where the assistant is inactive none of the four
\* timers (reminder poll, idle timer, proactive poll, focus countdown) is
\* pending, whatever was in flight when it was deactivated.
NoTimerWhileInactive ==
  ~kiboState.isKiboActive =>
    /\ reminderPoll = Nil
    /\ idleTimer = Nil
    /\ proactivePoll = Nil
    /\ focusTimer = Nil

\* C7: a step that applies setReminder directives with a task and a delay
\* d >= 0 appends exactly one reminder per directive, due d seconds after
\* the time of the step, not completed, and changes no other reminder.
IsSetReminder(c) == c.name = "setReminder" /\ c.arg # "" /\ c.n >= 0
SetReminderAppends ==
  [][ LET sets == SelectSeq(log'.applied, IsSetReminder)
          old == kiboState.reminders
          new == kiboState'.reminders
      IN sets # <<>> =>
           /\ Len(new) = Len(old) + Len(sets)
           /\ SubSeq(new, 1, Len(old)) = old
           /\ \A k \in DOMAIN sets :
                LET r == new[Len(old) + k]
                IN /\ r.task = sets[k].arg
                   /\ r.time = now + sets[k].n * MsPerSecond
                   /\ ~r.completed /\ r.completedAt = Nil ]_vars

IsDue(r) == ~r.completed /\ now >= r.time
Tasks(rs) == [k \in DOMAIN rs |-> rs[k].task]
Messages(ns) == [k \in DOMAIN ns |-> ns[k].message]
Texts(ss) == [k \in DOMAIN ss |-> ss[k].text]
IsReminderNote(n) == n.type = "reminder"
IsSpoken(u) == u.on

\* C8: while the assistant is active the reminder poll is pending and its
\* next tick is at most one period away; a poll tick emits one notification
\* and one spoken alert for each reminder that is incomplete and past due,
\* in order, and nothing for any other reminder, and changes no reminder;
\* no other step emits a reminder notification.
PollAlertsDue ==
  [][ /\ kiboState'.isKiboActive =>
           /\ reminderPoll' # Nil
           /\ Val(reminderPoll') <= now' + ReminderPollMs
      /\ log'.polled =>
           LET due == Tasks(SelectSeq(kiboState.reminders, IsDue))
           IN /\ kiboState'.reminders = kiboState.reminders
              /\ Messages(log'.notifs) = due
              /\ \A k \in DOMAIN log'.notifs : IsReminderNote(log'.notifs[k])
              /\ Texts(log'.said) = due
              /\ \A k \in DOMAIN log'.said : IsSpoken(log'.said[k])
      /\ ~log'.polled =>
           \A k \in DOMAIN log'.notifs : ~IsReminderNote(log'.notifs[k]) ]_vars

\* A poll tick that alerted for a due reminder and passed over a completed
\* one that is past due too.
PollSkippedCompleted ==
  /\ log.polled
  /\ Len(log.notifs) = 1
  /\ \E k \in DOMAIN kiboState.reminders :
       kiboState.reminders[k].completed /\ now >= kiboState.reminders[k].time

\* C9: no step deletes a reminder: every reminder present before a step is
\* present after it with the same id, task and due time.
Kept(r, rs) ==
  \E j \in DOMAIN rs : rs[j].id = r.id /\ rs[j].task = r.task /\ rs[j].time = r.time
RemindersKept ==
  [][ \A k \in DOMAIN kiboState.reminders :
        Kept(kiboState.reminders[k], kiboState'.reminders) ]_vars

\* C10: in every reachable state no two entries of reminders have the same
\* id.
ReminderIdsUnique ==
  \A i, j \in DOMAIN kiboState.reminders :
    i # j => kiboState.reminders[i].id # kiboState.reminders[j].id

Detected(h) == {op \in DOMAIN h : h[op].kind = "send" /\ h[op].moodAt > 0}

\* C11: moodHistory is append-only and the entries of the dispatches whose
\* mood was detected are in the order the dispatches were called, also when
\* dispatches overlap.
MoodHistoryInCallOrder ==
  \A i, j \in Detected(hist) : i < j => hist[i].moodAt < hist[j].moodAt

\* C11, as the code has it: a step leaves moodHistory alone or appends one
\* entry, stamped with the time of the step, at the end; it appends exactly
\* when the mood detection of one dispatch resolves; so the history holds one
\* entry per dispatch whose mood was detected, in the order the detections
\* resolved.
MoodHistoryAppendOnly ==
  [][ LET old == kiboState.moodHistory
          new == kiboState'.moodHistory
          fresh == Detected(hist') \ Detected(hist)
      IN /\ Detected(hist) \subseteq Detected(hist')
         /\ \A op \in Detected(hist) : hist'[op].moodAt = hist[op].moodAt
         /\ Len(new) = Cardinality(Detected(hist'))
         /\ IF fresh = {}
            THEN new = old
            ELSE /\ Cardinality(fresh) = 1
                 /\ new = Append(old, new[Len(new)])
                 /\ new[Len(new)].timestamp = now
                 /\ \A op \in fresh : hist'[op].moodAt = Len(new) ]_vars

\* Two overlapping dispatches whose moods were detected in the reverse of
\* the order they were called in.
MoodsDetectedOutOfOrder ==
  \E i, j \in Detected(hist) : i < j /\ hist[i].moodAt > hist[j].moodAt

\* The texts of the inputs that begin with a URL or, in any letter case,
\* with a web-query keyword phrase.
WebTexts ==
  { <<"What", "is", "entropy">>, <<"what", "isotope">>, <<"https://a", "please">> }
Capabilities == {"optimize", "image", "summarize", "web", "conv"}
Routed(fs) ==
  {f \in FlowIds : fs[f].kind = "send" /\ fs[f].pc \in Capabilities}

\* C12: a dispatch with no file is routed to the web-knowledge capability
\* when its text starts with a URL or a web-query keyword phrase, and to the
\* conversational capability, never to web-knowledge, when it does not.
RoutedByKeywordOrUrl ==
  \A f \in Routed(flows) :
    flows[f].file = "none" =>
      IF flows[f].text \in WebTexts THEN flows[f].pc = "web"
      ELSE flows[f].pc = "conv"

\* C12, as the code has it: a dispatch with no file whose text starts with
\* the reserved prefix OPTIMIZE_PROMPT:: is routed to the prompt optimizer;
\* any other dispatch with no file is routed to web-knowledge when its text
\* starts with a URL or a keyword phrase and to the conversational capability
\* otherwise; and the Model message appended for a web-knowledge answer
\* carries exactly the text and the sources the capability returned.
RoutedByPrefixKeywordOrUrl ==
  [][ /\ \A f \in Routed(flows') :
           flows'[f].file = "none" =>
             flows'[f].pc =
               IF flows'[f].text[1] = "OPTIMIZE_PROMPT::" THEN "optimize"
               ELSE IF flows'[f].text \in WebTexts THEN "web" ELSE "conv"
      /\ (log'.returned # Nil /\ Val(log'.returned).by = "web") =>
           LET ms == kiboState'.messages
               ret == Val(log'.returned)
           IN /\ Len(ms) = Len(kiboState.messages) + 1
              /\ ms[Len(ms)].role = "model"
              /\ ms[Len(ms)].parts = <<[type |-> "text", text |-> ret.text]>>
              /\ ms[Len(ms)].sources = Some(ret.sources) ]_vars

\* A web-knowledge answer with a source, appended with it.
WebAnswerWithSource ==
  /\ log.returned # Nil
  /\ Val(log.returned).by = "web"
  /\ Val(log.returned).sources # <<>>
  /\ kiboState.messages[Len(kiboState.messages)].sources
       = Some(Val(log.returned).sources)

\* The names of the inputs that match the preset table, with the style and
\* the voice of each preset.
PresetOf(name) ==
  CASE name \in {"MUZAN", "Muzan"} -> [style |-> "MUZAN", voice |-> "Fenrir"]
    [] name = "Gojo" -> [style |-> "GOJO", voice |-> "Zephyr"]
    [] name = "Kibo" -> [style |-> "ABSTRACT", voice |-> "Puck"]
    [] OTHER -> [style |-> "", voice |-> ""]
IsPresetName(name) == PresetOf(name).style # ""
Transformed == log.returned # Nil /\ Val(log.returned).by = "transform"
Count(calls, c) == Cardinality({i \in DOMAIN calls : calls[i] = c})

\* C13: a transform with a preset name adopts the preset's style and voice
\* and issues no capability call at all; a transform with any other name
\* yields the Generated style and issues one image-generation and one
\* voice-inference call.
PresetTransformCallsNothing ==
  (Transformed /\ Val(log.returned).ok) =>
    LET ret == Val(log.returned)
    IN IF IsPresetName(ret.name)
       THEN /\ kiboState.avatarStyle = PresetOf(ret.name).style
            /\ kiboState.voice = PresetOf(ret.name).voice
            /\ ret.issued = <<>>
       ELSE /\ kiboState.avatarStyle = "GENERATED"
            /\ Count(ret.issued, "generateCharacterAvatar") = 1
            /\ Count(ret.issued, "getVoiceForCharacter") = 1

\* C13, as the code has it: a transform with a preset name adopts the
\* preset's style and voice and issues neither an image-generation nor a
\* voice-inference call, only the request for the confirmation message; a
\* transform with any other name yields the Generated style with the inferred
\* voice and issues one image-generation call, one voice-inference call and
\* then the request for the confirmation message.
PresetTransformCallsConfirmationOnly ==
  (Transformed /\ Val(log.returned).ok) =>
    LET ret == Val(log.returned)
    IN IF IsPresetName(ret.name)
       THEN /\ kiboState.avatarStyle = PresetOf(ret.name).style
            /\ kiboState.voice = PresetOf(ret.name).voice
            /\ ret.issued = <<"getConversationalResponse">>
       ELSE /\ kiboState.avatarStyle = "GENERATED"
            /\ IF ret.inferenceFailed THEN kiboState.voice = "Puck"
               ELSE kiboState.voice \in InferredVoices
            /\ Count(ret.issued, "generateCharacterAvatar") = 1
            /\ Count(ret.issued, "getVoiceForCharacter") = 1
            /\ Count(ret.issued, "getConversationalResponse") = 1
            /\ ret.issued[3] = "getConversationalResponse"

\* A preset transform, done.
PresetTransformDone ==
  Transformed /\ Val(log.returned).ok /\ Val(log.returned).name = "MUZAN"

Persona(ks) ==
  <<ks.avatarStyle, ks.voice, ks.generatedAvatarUrl, ks.currentCharacterName,
    ks.language>>

\* C14: a transform one of whose steps failed (avatar generation, voice
\* inference or the confirmation request) ends with avatarStyle, voice,
\* generatedAvatarUrl, currentCharacterName and language unchanged and with
\* exactly one Model message, the apology, appended.
Apologized ==
  kiboState'.messages =
    Append(kiboState.messages,
           [role |-> "model", sources |-> Nil,
            parts |-> <<[type |-> "text", text |-> "could not transform"]>>])
AnyFailureKeepsPersona ==
  [][ LET ret == Val(log'.returned)
      IN (log'.returned # Nil /\ ret.by = "transform"
            /\ (~ret.ok \/ ret.inferenceFailed))
         => Persona(kiboState') = Persona(kiboState) /\ Apologized ]_vars

\* C14, as the code has it: a transform whose avatar generation or
\* confirmation request fails changes none of the five persona fields at any
\* of its steps and appends exactly one Model message, the apology, at its
\* failing step; a failed voice inference does not fail the transform, which
\* goes on with the voice Puck.
FailedTransformKeepsPersona ==
  [][ LET ret == Val(log'.returned)
          failed == log'.returned # Nil /\ ret.by = "transform" /\ ~ret.ok
          done == log'.returned # Nil /\ ret.by = "transform" /\ ret.ok
      IN /\ Persona(kiboState') # Persona(kiboState) => done
         /\ failed => Apologized
         /\ (done /\ ret.inferenceFailed) =>
              /\ kiboState'.avatarStyle = "GENERATED"
              /\ kiboState'.voice = "Puck"
              /\ kiboState'.messages # kiboState.messages /\ ~Apologized ]_vars

\* A transform that failed at its confirmation request, after another
\* transform had changed the persona.
TransformFailedAtConfirmation ==
  /\ Transformed /\ ~Val(log.returned).ok
  /\ Len(Val(log.returned).issued) = 3
  /\ kiboState.avatarStyle # "ABSTRACT"

\* C15: a speak call made while the assistant is disabled is a no-op: it
\* changes neither status nor mood and issues no speech-synthesis request,
\* whoever calls it, workflows started while the assistant was active
\* included.  (The step that switches the assistant off makes no speak call.)
SpeakIsNoopWhileDisabled ==
  ~kiboState.isKiboActive => \A i \in DOMAIN log.said : ~log.said[i].on

SpeakFinished == log.returned # Nil /\ Val(log.returned).by = "speak"

\* The speak calls of a step that were made while active, and the moods of
\* the synthesis requests the step has put in flight, in call order.
OnMoods(said) ==
  LET on == SelectSeq(said, LAMBDA u : u.on)
  IN [i \in DOMAIN on |-> on[i].mood]
NewSpeakMoods ==
  [i \in 1..(Len(speaks') - Len(speaks)) |-> speaks'[Len(speaks) + i].mood]
\* Every active speak call of the step has put one synthesis request in
\* flight, with the mood it set.
SpeakCallsIssued ==
  ~(log'.returned # Nil /\ Val(log'.returned).by = "speak") =>
      /\ Len(speaks') >= Len(speaks)
      /\ NewSpeakMoods = OnMoods(log'.said)

\* C16: when a speak call made while the assistant was active finishes, by
\* playback or by a synthesis or playback failure, status is Idle and mood
\* is the mood that the call set; a failure emits an error notification and
\* does not reach the caller.
SpeakFinishKeepsItsMood ==
  [][ /\ SpeakCallsIssued
      /\ (log'.returned # Nil /\ Val(log'.returned).by = "speak") =>
        /\ kiboState'.status = "idle"
        /\ kiboState'.mood = Val(log'.returned).mood
        /\ ~Val(log'.returned).ok =>
             /\ \E i \in DOMAIN log'.notifs : log'.notifs[i].type = "error"
             /\ notification' # Nil /\ Val(notification').type = "error"
             /\ flows' = flows
             /\ \A op \in DOMAIN hist : hist'[op].outcome = hist[op].outcome ]_vars

\* C16, as the code has it: the finish of a speak call sets status to Idle
\* and leaves mood as it finds it, which is the mood the call set unless
\* another speak call, a mood detection or a focus start has set it since; a
\* failure emits an error notification and does not reach the caller.
SpeakFinishLeavesMood ==
  [][ /\ SpeakCallsIssued
      /\ (log'.returned # Nil /\ Val(log'.returned).by = "speak") =>
        /\ kiboState'.status = "idle"
        /\ kiboState'.mood = kiboState.mood
        /\ Len(speaks') = Len(speaks) - 1
        /\ ~Val(log'.returned).ok =>
             /\ \E i \in DOMAIN log'.notifs : log'.notifs[i].type = "error"
             /\ notification' # Nil /\ Val(notification').type = "error"
             /\ flows' = flows
             /\ \A op \in DOMAIN hist : hist'[op].outcome = hist[op].outcome ]_vars

\* A speak call that failed after a mood detection changed the mood it set.
SpeakFailedAfterMoodChange ==
  /\ SpeakFinished
  /\ ~Val(log.returned).ok
  /\ kiboState.mood # Val(log.returned).mood

\* C17: speech is never overlapped: in every state at most one speak call
\* is in flight (between its synthesis request and the end of its playback
\* or its failure).
SpeechNeverOverlaps == Len(speaks) <= 1

IsFocusStart(c) == c.name = "startFocusSession"
IsCompletion(n) == n.message = "focus complete"
FocusStartMessages ==
  SelectSeq(kiboState.messages,
            LAMBDA m : m.parts = <<[type |-> "text", text |-> "focus started"]>>)

\* C18: at most one focus countdown is pending at any time; a step that
\* starts focus sessions cancels the countdown pending before it and leaves
\* the three focus fields and the one pending countdown with the values of
\* the session started last; an expiry is that of the one pending countdown,
\* the session the fields describe, clears the three fields, emits exactly
\* one completion notification and leaves no countdown pending.
OneFocusCountdown ==
  [][ /\ Len(focusTimer') <= 1
      /\ LET starts == SelectSeq(log'.applied, IsFocusStart)
         IN starts # <<>> =>
              LET last == starts[Len(starts)]
              IN /\ focusTimer' # <<>>
                 /\ focusTimer'[1].task = last.arg
                 /\ focusTimer'[1].due = now + last.n * MsPerMinute
                 /\ kiboState'.isFocusModeActive
                 /\ kiboState'.focusSessionEndTime = Some(focusTimer'[1].due)
                 /\ kiboState'.focusSessionTask = Some(last.arg)
      /\ LET done == SelectSeq(log'.notifs, IsCompletion)
         IN done # <<>> =>
              /\ Len(done) = 1
              /\ Len(focusTimer) = 1
              /\ now >= focusTimer[1].due
              /\ kiboState.focusSessionEndTime = Some(focusTimer[1].due)
              /\ kiboState.focusSessionTask = Some(focusTimer[1].task)
              /\ focusTimer' = <<>>
              /\ ~kiboState'.isFocusModeActive
              /\ kiboState'.focusSessionEndTime = Nil
              /\ kiboState'.focusSessionTask = Nil ]_vars

\* The expiry of a session that was started while an earlier one was active.
RestartedSessionExpired ==
  /\ Len(FocusStartMessages) >= 2
  /\ \E i \in DOMAIN log.notifs : IsCompletion(log.notifs[i])
  /\ kiboState.focusSessionTask = Nil

CheckFailed == log.returned # Nil /\ Val(log.returned) = [by |-> "proactive", ok |-> FALSE]
CheckStarts ==
  \E f \in FlowIds : flows'[f].kind = "proactive" /\ flows[f].kind # "proactive"

\* C19: the step in which a proactive check fails sets isProactiveMode to
\* false, emits a notification, appends nothing to the transcript and leaves
\* no proactive interval pending; while isProactiveMode is false no interval
\* is pending and no check starts, and only the user's switch sets it to true.
FailedCheckTurnsProactiveOff ==
  [][ /\ CheckFailed' =>
           /\ ~kiboState'.isProactiveMode
           /\ log'.notifs = <<[type |-> "info", message |-> "proactive disabled"]>>
           /\ notification' = Some(log'.notifs[1])
           /\ kiboState'.messages = kiboState.messages
           /\ proactivePoll' = Nil
      /\ ~kiboState'.isProactiveMode => proactivePoll' = Nil
      /\ CheckStarts => kiboState.isProactiveMode /\ kiboState'.isProactiveMode
      /\ (kiboState'.isProactiveMode /\ ~kiboState.isProactiveMode) =>
           /\ Len(hist') = Len(hist) + 1
           /\ log'.notifs = <<>> ]_vars

\* A proactive check has failed.
ProactiveCheckFailed == CheckFailed /\ ~kiboState.isProactiveMode

\* C20: a proactive check starts only at a tick of the interval at which
\* isProactiveMode is true, the assistant is active, isLoading is false and
\* status is Idle, and such a tick does start one; while proactive mode stays
\* on and the assistant stays active the interval's next tick is moved only
\* by a tick, by one period: no other step restarts the period.
ProactiveCheckOncePerPeriod ==
  [][ /\ CheckStarts =>
           /\ proactivePoll # Nil /\ now >= Val(proactivePoll)
           /\ kiboState.isProactiveMode /\ kiboState.isKiboActive
           /\ ~kiboState.isLoading /\ kiboState.status = "idle"
      /\ (/\ kiboState.isProactiveMode /\ kiboState'.isProactiveMode
          /\ kiboState.isKiboActive /\ kiboState'.isKiboActive) =>
           /\ proactivePoll # Nil
           /\ \/ proactivePoll' = proactivePoll
              \/ /\ now >= Val(proactivePoll)
                 /\ proactivePoll' = Some(Val(proactivePoll) + ProactivePollMs)
                 /\ (~kiboState.isLoading /\ kiboState.status = "idle") => CheckStarts
    ]_vars

Started == log.returned # Nil /\ Val(log.returned).by = "startup"
\* A stored item that is no value of its field: a text JSON.parse rejects,
\* or a name that is none of the field's names.
Malformed(key, item) ==
  /\ item # Nil
  /\ CASE key = "kibo-voice" -> Val(item).text \notin Voices
       [] key = "kibo-animationPack" -> Val(item).text \notin AnimationPacks
       [] key = "kibo-avatarStyle" -> Val(item).text \notin AvatarStyles
       [] OTHER -> ~IsJson(Val(item))
NoStorage == [k \in StorageKeys |-> Nil]
DefaultState == InitialState(<<>>, TRUE, FALSE)

\* C21: a startup completes whatever storage holds, and each persisted field
\* then has the stored value, or its default when the stored item is absent
\* or malformed.
StartupLoadsOrDefaults ==
  [][ Started' =>
        /\ Val(log'.returned).ok
        /\ mounted'
        /\ \A key \in StorageKeys :
             LET item == Val(log'.returned).stored[key]
             IN persist(kiboState', NoStorage)[key] =
                  IF item = Nil \/ Malformed(key, item)
                  THEN persist(DefaultState, NoStorage)[key]
                  ELSE item ]_vars

\* The nine persisted fields of a state.
Persisted(ks) ==
  <<ks.reminders, ks.voice, ks.animationPack, ks.avatarStyle, ks.isProactiveMode,
    ks.learnedFacts, ks.moodHistory, ks.isKiboActive, ks.isFloatingMode>>

ScreenDenied ==
  \E f \in FlowIds :
    flows[f].kind = "screen" /\ flows[f].pc = "capture" /\ flows'[f].pc = "free"
ClipboardFailed ==
  log'.returned # Nil /\ Val(log'.returned) = [by |-> "clipboard", ok |-> FALSE]
Apology(text) ==
  [role |-> "model", parts |-> <<[type |-> "text", text |-> text]>>, sources |-> Nil]

\* C23: a step in which a device permission fails (the screen capture of
\* screen analysis or of the proactive check, the clipboard read) emits a
\* notification and appends no message.
DeviceFailureKeepsTranscript ==
  [][ (ScreenDenied \/ ClipboardFailed \/ CheckFailed') =>
        /\ log'.notifs # <<>>
        /\ kiboState'.messages = kiboState.messages ]_vars

\* C23, as the code has it: a failed clipboard read and a failed proactive
\* check emit a notification and append no message; a failed screen capture
\* of screen analysis emits an error notification and appends one Model
\* message, the apology that asks for the permission.
DeviceFailureNotifies ==
  [][ /\ (ClipboardFailed \/ CheckFailed') =>
           /\ Len(log'.notifs) = 1
           /\ notification' = Some(log'.notifs[1])
           /\ kiboState'.messages = kiboState.messages
      /\ ClipboardFailed => log'.notifs[1].type = "error"
      /\ ScreenDenied =>
           /\ log'.notifs = <<[type |-> "error", message |-> "screen failed"]>>
           /\ notification' = Some(log'.notifs[1])
           /\ kiboState'.messages =
                Append(kiboState.messages, Apology("could not analyze")) ]_vars

\* A screen analysis whose capture was refused has apologized.
ScreenAnalysisApologized ==
  /\ log.notifs = <<[type |-> "error", message |-> "screen failed"]>>
  /\ kiboState.messages # <<>>
  /\ kiboState.messages[Len(kiboState.messages)] = Apology("could not analyze")

\* C24: messages is append-only: every step leaves the messages it found
\* unchanged, as a prefix of the messages it leaves, also while several
\* workflows are in flight.
MessagesAppendOnly ==
  [][ IsPrefix(kiboState.messages, kiboState'.messages) ]_vars

\* A message has been appended while two workflows were in flight.
AppendedWhileTwoInFlight ==
  /\ Len(kiboState.messages) >= 3
  /\ \A f \in FlowIds : ~Free(f)

\* C25: a dispatch of a reserved command appends no User message and its
\* mood detection step leaves mood and moodHistory unchanged; every other
\* dispatch sets mood and appends one moodHistory entry in the step that
\* ends its mood detection, and a response capability is invoked only from
\* that step.
ReservedCommandSkipsMood ==
  [][ \A f \in FlowIds :
        LET fl == flows[f]
            next == flows'[f]
        IN /\ (next.kind = "send" /\ fl.kind # "send" /\ IsReserved(next.text)) =>
                kiboState'.messages = kiboState.messages
           /\ (fl.kind = "send" /\ fl.pc = "mood" /\ next.pc \notin {"mood", "free"}) =>
                IF IsReserved(fl.text)
                THEN /\ kiboState'.mood = kiboState.mood
                     /\ kiboState'.moodHistory = kiboState.moodHistory
                ELSE /\ Len(kiboState'.moodHistory) = Len(kiboState.moodHistory) + 1
                     /\ kiboState'.mood =
                          kiboState'.moodHistory[Len(kiboState'.moodHistory)].mood
           /\ (next.kind = "send" /\ next.pc \in {"image", "summarize", "web", "conv"}
                 /\ fl.pc # next.pc) =>
                fl.kind = "send" /\ fl.pc = "mood" /\ ~IsReserved(fl.text) ]_vars

DispatchFailed(op) ==
  /\ hist[op].kind = "send" /\ hist[op].outcome = "running"
  /\ hist'[op].outcome \in {"threw", "rejected"}

\* C26: the step in which a dispatch fails, its file reading included,
\* appends exactly one apology Model message, speaks it with mood Sad, emits
\* an error notification and triggers the Surprised reaction.
FailedDispatchApologizes ==
  [][ \A op \in DOMAIN hist :
        DispatchFailed(op) =>
          /\ kiboState'.messages =
               Append(kiboState.messages,
                      [role |-> "model", parts |-> Parts("apology", Nil), sources |-> Nil])
          /\ \E i \in DOMAIN log'.said :
               log'.said[i].text = "apology" /\ log'.said[i].mood = "SAD"
          /\ \E i \in DOMAIN log'.notifs : log'.notifs[i].type = "error"
          /\ kiboState'.reaction = "SURPRISED" ]_vars

IsTransform(call) == call.name = "changeCharacter" /\ call.arg # ""
IsFact(call) == call.name = "extractFact" /\ call.arg # ""
FactsOf(calls) ==
  LET facts == SelectSeq(calls, IsFact)
  IN [i \in DOMAIN facts |-> facts[i].arg]
FactTexts(learnedFacts) == [i \in DOMAIN learnedFacts |-> learnedFacts[i].fact]
DirectiveStep(f) ==
  /\ flows[f].kind = "send" /\ flows[f].pc \in {"conv", "resume"}
  /\ flows'[f].pc # flows[f].pc
  /\ hist'[flows[f].op].outcome # "threw"
ReplyMessage(text) ==
  [role |-> "model", parts |-> Parts(text, Nil), sources |-> Nil]

ResponseCapabilities == {"image", "summarize", "web", "conv"}
Classified(f) ==
  /\ flows[f].kind = "send" /\ flows[f].pc = "mood"
  /\ flows'[f].pc # "mood"
  /\ ~IsReserved(flows[f].text)

EveryMessageHasAPart ==
  \A i \in DOMAIN kiboState.messages : kiboState.messages[i].parts # <<>>

Recognized == log'.returned # Nil /\ Val(log'.returned).by = "recognizer"
Listener == CHOOSE f \in FlowIds : flows[f].kind = "listen" /\ flows'[f].kind # "listen"
EndOfListening == listeningEffect([World EXCEPT !.flows[Listener] = NoFlow])
\* The step made no dispatch: it changed what the end of listening changes
\* and nothing else.
NoDispatch ==
  /\ kiboState' = EndOfListening.ks
  /\ idleTimer' = idleEffect(kiboState, EndOfListening)
  /\ notification' = notification
  /\ reactionTimers' = reactionTimers
  /\ speaks' = speaks
  /\ hist' = hist
  /\ flows' = [flows EXCEPT ![Listener] = NoFlow]
Dispatched(text) ==
  /\ Len(hist') = Len(hist) + 1
  /\ flows'[Listener].kind = "send"
  /\ flows'[Listener].text = text
  /\ kiboState'.isLoading

\* C30: a dispatch whose text is empty or whitespace-only and that has no
\* file is a no-op: session state, transcript, idle timer, notification and
\* reaction are unchanged and no capability is called.
BlankTextIsNoop ==
  [][ (Recognized /\ IsBlank(Val(log'.returned).transcript)) => NoDispatch ]_vars

\* C30, as the code has it: a dispatch with no file is a no-op when its
\* text is whitespace-only, or empty while the input field its handler sees
\* is empty or whitespace-only; a dispatch with an empty text and a filled
\* input field dispatches the input field's text, and any other dispatch its
\* own text.
BlankTextAndInputIsNoop ==
  [][ Recognized =>
        LET r == Val(log'.returned)
        IN IF r.transcript = <<>>
           THEN IF IsBlank(r.input) THEN NoDispatch ELSE Dispatched(r.input)
           ELSE IF IsBlank(r.transcript) THEN NoDispatch
                ELSE Dispatched(r.transcript) ]_vars

\* A whitespace-only transcript arrived while the input field was filled and
\* the clock had advanced: nothing was dispatched.
BlankTranscriptDropped ==
  /\ log.returned # Nil
  /\ Val(log.returned) = [by |-> "recognizer", transcript |-> <<" ">>,
                          input |-> <<"hello">>]
  /\ now > 0
  /\ hist = <<>>
  /\ \A f \in FlowIds : Free(f)

TransformSucceeded ==
  log'.returned # Nil /\ Val(log'.returned).by = "transform" /\ Val(log'.returned).ok

\* C31: the step that ends a successful transform leaves language at ja-JP
\* when the adopted style is not the abstract one, and at
\* userPreferredLanguage, as it then is, when it is the abstract one; and it
\* does not change userPreferredLanguage.
TransformSetsLanguage ==
  [][ TransformSucceeded =>
        /\ kiboState'.language =
             IF kiboState'.avatarStyle = "ABSTRACT"
             THEN kiboState'.userPreferredLanguage ELSE "ja-JP"
        /\ kiboState'.userPreferredLanguage = kiboState.userPreferredLanguage ]_vars

\* The preset each spelling of a preset button's name stands for.
PresetStyleOf(name) ==
  CASE name \in {"Kibo", "KIBO", "kibo"} -> "ABSTRACT"
    [] name \in {"Kiko (Anime Girl)", "kiko (anime girl)", "Kiko", "kiko"} -> "ANIME_GIRL"
    [] name \in {"Muzan", "MUZAN", "muzan"} -> "MUZAN"
    [] name \in {"Gojo", "gojo"} -> "GOJO"

\* C32: a transform whose name is a preset button's name, in any letter case
\* and with or without its parenthetical qualifier, takes the preset path
\* (it awaits the confirmation at once) and, when it succeeds, adopts that
\* preset's style.
PresetNamesTakePresetPath ==
  [][ \A f \in FlowIds :
        /\ (flows[f].kind # "cc" /\ flows'[f].kind = "cc") =>
             flows'[f].pc = "confirm"
        /\ (flows[f].kind = "cc" /\ TransformSucceeded /\ flows'[f].kind # "cc") =>
             kiboState'.avatarStyle = PresetStyleOf(flows[f].name) ]_vars

IdleTimerFires ==
  idleTimer # Nil /\ idleTimer' = Nil /\ kiboState'.isKiboActive
FunFactRequested ==
  \E f \in FlowIds : flows[f].kind # "idle" /\ flows'[f].kind = "idle"
FunFactArrived(f) ==
  /\ flows[f].kind = "idle" /\ flows'[f].kind # "idle"
  /\ kiboState'.messages # kiboState.messages
TranscriptChanges == kiboState'.messages # kiboState.messages
IdleTimerRestarted ==
  idleTimer' # Nil /\ Val(idleTimer').due = now + IdleMs
IdleTimerFiring ==
  /\ IdleTimerFires =>
       /\ now = Val(idleTimer).due
       /\ kiboState' = kiboState
       /\ FunFactRequested <=>
            (kiboState.status = "idle" /\ ~Listening(World))
  /\ FunFactRequested => IdleTimerFires
  /\ \A f \in FlowIds :
       FunFactArrived(f) =>
         kiboState'.messages =
           Append(kiboState.messages, ReplyMessage("fun fact"))
  /\ \A f \in FlowIds :
       FunFactArrived(f) /\ flows[f].snap.active =>
         /\ log'.said = <<[text |-> "fun fact", mood |-> "PLAYFUL", on |-> TRUE]>>
         /\ kiboState'.status = "speaking"

\* C33 as stated: every step that changes the transcript restarts the idle
\* timer for one full period; the timer is spent by firing, and the step in
\* which it fires requests a fun fact exactly when status is Idle and no
\* voice input is in progress at that moment; the fun fact that arrives is
\* appended and spoken, which restarts the timer.
IdleTimerRestartedByTranscript ==
  [][(TranscriptChanges => IdleTimerRestarted) /\ IdleTimerFiring]_vars

\* C33 amended: a step that changes the transcript restarts the idle timer
\* for one full period while the assistant is active, and leaves no timer
\* pending while it is inactive; the rest as stated.
IdleTimerFiresWhenIdle ==
  [][ /\ TranscriptChanges =>
           IF kiboState'.isKiboActive THEN IdleTimerRestarted
                                      ELSE idleTimer' = Nil
      /\ IdleTimerFiring ]_vars

\* The timer fired after three idle minutes, the fun fact was appended and
\* is being spoken, and the timer runs again.
FunFactToldAndTimerRestarted ==
  /\ now >= IdleMs
  /\ kiboState.messages # <<>>
  /\ kiboState.messages[Len(kiboState.messages)] = ReplyMessage("fun fact")
  /\ kiboState.status = "speaking"
  /\ idleTimer # Nil /\ Val(idleTimer).due = now + IdleMs

IsFactDirective(call) == call.name = "extractFact"
FactIds(learnedFacts) == {learnedFacts[i].id : i \in DOMAIN learnedFacts}
AppendsFacts(count) ==
  LET old == kiboState.learnedFacts
      new == kiboState'.learnedFacts
  IN /\ Len(new) = Len(old) + count
     /\ SubSeq(new, 1, Len(old)) = old
     /\ \A i \in DOMAIN new : i > Len(old) => new[i].id \notin FactIds(old)
     /\ \A i, j \in DOMAIN new : new[i].id = new[j].id => i = j

\* C34 as stated: every step appends to learnedFacts one fact with a fresh
\* id for each extractFact directive it applies, and changes nothing else
\* of learnedFacts.
EveryFactDirectiveAppends ==
  [][AppendsFacts(Len(SelectSeq(log'.applied, IsFactDirective)))]_vars

\* C34 amended: every step appends to learnedFacts one fact with a fresh id
\* and the directive's text for each extractFact directive with a non-empty
\* fact that it applies, in the order applied, and changes nothing else of
\* learnedFacts, a reload of the page included.
FactsAreAppendOnly ==
  [][ /\ AppendsFacts(Len(SelectSeq(log'.applied, IsFact)))
      /\ FactTexts(kiboState'.learnedFacts) =
           FactTexts(kiboState.learnedFacts) \o FactsOf(log'.applied) ]_vars

\* A second response came with an empty fact and a fact: one more fact
\* stands after the first, under another id.
SecondFactLearned ==
  /\ log.applied = <<Call("extractFact", "", 0), Call("extractFact", "likes tea", 0)>>
  /\ FactTexts(kiboState.learnedFacts) = <<"likes tea", "likes tea">>
  /\ kiboState.learnedFacts[1].id # kiboState.learnedFacts[2].id

UnknownId(id) == \A k \in DOMAIN kiboState.reminders : kiboState.reminders[k].id # id
ToggleStep ==
  /\ Len(hist') = Len(hist) + 1
  /\ hist'[Len(hist')].kind = "other"
  /\ \E id \in ReminderIds :
       /\ ~UnknownId(id)
       /\ kiboState'.reminders = handleToggleReminderComplete(World, id).ks.reminders
ToggledAt(k) ==
  LET r == kiboState.reminders[k]
      t == kiboState'.reminders[k]
  IN /\ kiboState'.reminders = [kiboState.reminders EXCEPT ![k] = t]
     /\ t = [r EXCEPT !.completed = ~r.completed, !.completedAt = t.completedAt]
     /\ t.completed <=> t.completedAt # Nil
TwiceToggled(id) ==
  handleToggleReminderComplete(handleToggleReminderComplete(World, id), id).ks

\* C35: a toggle step changes exactly one reminder, in place, and of it only
\* completed and completedAt, with completed true iff completedAt is set,
\* and changes nothing else of the session state, the notification or the
\* input field; toggling a reminder that is incomplete twice leaves it
\* incomplete with completedAt null; toggling an unknown id leaves the
\* session state as it is.
ToggleChangesOneReminder ==
  [][ /\ ToggleStep =>
           /\ \E k \in DOMAIN kiboState.reminders : ToggledAt(k)
           /\ [kiboState' EXCEPT !.reminders = kiboState.reminders] = kiboState
           /\ notification' = notification /\ chatInput' = chatInput
           /\ flows' = flows /\ speaks' = speaks
      /\ \A id \in ReminderIds :
           /\ UnknownId(id) => handleToggleReminderComplete(World, id).ks = kiboState
           /\ \A k \in DOMAIN kiboState.reminders :
                kiboState.reminders[k].id = id /\ ~kiboState.reminders[k].completed =>
                  /\ ~TwiceToggled(id).reminders[k].completed
                  /\ TwiceToggled(id).reminders[k].completedAt = Nil ]_vars

SpokenNow == SelectSeq(log'.said, LAMBDA s : s.on)
IssuedNow == (Len(speaks') - Len(SpokenNow) + 1)..Len(speaks')

\* C36: every speak call that a step issues synthesizes with the voice that
\* the session state holds once the step's updates are applied: the new
\* persona's voice for the confirmation of a transform, the chosen voice
\* after a manual voice change.
SpeakUsesCurrentVoice ==
  [][\A i \in IssuedNow : speaks'[i].voice = kiboState'.voice]_vars

PresetStyles == AvatarStyles \ {"GENERATED"}

\* C37: in every state, a generated avatar style comes with an avatar image
\* and a character name, and a preset style comes without an avatar image.
AvatarFieldsConsistent ==
  /\ kiboState.avatarStyle = "GENERATED" =>
       kiboState.generatedAvatarUrl # Nil /\ kiboState.currentCharacterName # Nil
  /\ kiboState.avatarStyle \in PresetStyles => kiboState.generatedAvatarUrl = Nil

\* C38: in every state of the active assistant, isListening is true exactly
\* when status is Listening.
ListeningIffStatusListening ==
  kiboState.isKiboActive =>
    (kiboState.isListening <=> kiboState.status = "listening")

\* C39: while a speak call is synthesizing or playing its audio, status is
\* Speaking.
SpeakingUntilAudioEnds ==
  speaks # <<>> => kiboState.status = "speaking"

====
